---- MODULE Spec2Model ----
(***************************************************************************)
(* Fleet dashboard (gm_api.py, app.py): status classifier, parallel trip   *)
(* fetch, KPI aggregation and the fuel report pipeline.                    *)
(*                                                                         *)
(* The specifications share the module's variables; each one drives its    *)
(* own group of variables and leaves the others at their idle value:       *)
(*   SpecClassify  GMAPI.get_tracker_status                                *)
(*   SpecTrips     GMAPI.get_trips_parallel                                *)
(*   SpecKpi       day partition and KPI loop of app.py                    *)
(*   SpecReport    load_fuel_data and the report operations of GMAPI       *)
(*   SpecFuel      the fuel block of the page over load_fuel_data          *)
(*   SpecPage      the stages of the page script                           *)
(*   SpecTrend     the trend of the active count                           *)
(*   SpecCompliance  process_driver_licenses and process_insurance         *)
(*   SpecParse     parse_fuel_report of the fuel block                     *)
(*   SpecFilter    the active-tracker filter before the trip fetch         *)
(*   SpecPair      the two calls of load_fuel_data running side by side    *)
(*   SpecBounded   SpecTrips or SpecReport with every request answered     *)
(***************************************************************************)
EXTENDS Integers, Sequences, FiniteSets, TLC

VARIABLES
    state_obj,      \* classifier: the argument of get_tracker_status
    cls_pc,         \* classifier: "idle" | "call" | "returned"
    cls_result,     \* classifier: the returned status, or the exception raised
    tracker_ids,    \* trips: argument of get_trips_parallel, a sequence of ids
    max_workers,    \* trips: argument of get_trips_parallel
    always_fail,    \* trips: the ids whose get_trips call fails every time
    main_pc,        \* trips: caller: "idle" | "submit" | "collect" | "returned" | "raised"
    submitted,      \* trips: how many of tracker_ids the comprehension has submitted
    wpc,            \* trips: per id, fetch_one: "new" | "queued" | "try" | "sleep" | "done"
    attempt,        \* trips: per id, the loop variable of fetch_one
    call_log,       \* trips: per id, the outcome of each get_trips call so far
    slept,          \* trips: per id, seconds spent in time.sleep
    served,         \* trips: per id, the body of the successful get_trips response
    future,         \* trips: per id, <<>> until fetch_one returned, then <<its result>>
    results,        \* trips: the local list `results`
    collected,      \* trips: the ids whose future as_completed has yielded
    two_days_trips, \* kpi: the fetch result, a sequence of {"id", "trips"} entries
    kpi_pc,         \* kpi: "idle" | "loaded" | "done" | "raised"
    yesterday_trips,    \* kpi: per entry, the trips that started yesterday
    day_before_trips,   \* kpi: per entry, the trips that started the day before
    active_count,       \* kpi: entries with a trip yesterday
    prev_active_count,  \* kpi: entries with a trip the day before
    total_distance,     \* kpi: float sum of the lengths of yesterday's trips
    total_move_time,    \* kpi: seconds on the road yesterday
    total_idle_time,    \* kpi: seconds of idling yesterday
    rep,                \* report: per running load_fuel_data call, its locals
    fuel,               \* fuel block: the variables of app.py 545-664
    page,               \* page script: its position and the data of app.py 199-244
    kpi_trend,          \* trend: the two active counts and the trend of app.py 485-500
    comp,               \* compliance: one call of process_driver_licenses / process_insurance
    parse,              \* parser: one call of parse_fuel_report, its argument and result
    filt                \* filter: the states, the ids and active_tracker_ids of app.py 359-394

cls_vars == <<state_obj, cls_pc, cls_result>>

trip_vars == <<tracker_ids, max_workers, always_fail, main_pc, submitted, wpc, attempt,
               call_log, slept, served, future, results, collected>>

kpi_vars == <<two_days_trips, kpi_pc, yesterday_trips, day_before_trips, active_count,
              prev_active_count, total_distance, total_move_time, total_idle_time>>

rep_vars == <<rep>>

fuel_vars == <<fuel>>

page_vars == <<page>>

trend_vars == <<kpi_trend>>

comp_vars == <<comp>>

parse_vars == <<parse>>

filt_vars == <<filt>>

vars == <<cls_vars, trip_vars, kpi_vars, rep_vars, fuel_vars, page_vars, trend_vars,
          comp_vars, parse_vars, filt_vars>>

\* what the actions of one group leave alone
not_cls_vars ==
    <<trip_vars, kpi_vars, rep_vars, fuel_vars, page_vars, trend_vars, comp_vars,
      parse_vars, filt_vars>>
not_trip_vars ==
    <<cls_vars, kpi_vars, rep_vars, fuel_vars, page_vars, trend_vars, comp_vars,
      parse_vars, filt_vars>>
not_kpi_vars ==
    <<cls_vars, trip_vars, rep_vars, fuel_vars, page_vars, trend_vars, comp_vars,
      parse_vars, filt_vars>>
not_rep_vars ==
    <<cls_vars, trip_vars, kpi_vars, fuel_vars, page_vars, trend_vars, comp_vars,
      parse_vars, filt_vars>>
not_fuel_vars ==
    <<cls_vars, trip_vars, kpi_vars, rep_vars, page_vars, trend_vars, comp_vars,
      parse_vars, filt_vars>>
not_page_vars ==
    <<cls_vars, trip_vars, kpi_vars, rep_vars, fuel_vars, trend_vars, comp_vars,
      parse_vars, filt_vars>>
not_trend_vars ==
    <<cls_vars, trip_vars, kpi_vars, rep_vars, fuel_vars, page_vars, comp_vars,
      parse_vars, filt_vars>>
not_comp_vars ==
    <<cls_vars, trip_vars, kpi_vars, rep_vars, fuel_vars, page_vars, trend_vars,
      parse_vars, filt_vars>>
not_parse_vars ==
    <<cls_vars, trip_vars, kpi_vars, rep_vars, fuel_vars, page_vars, trend_vars, comp_vars,
      filt_vars>>
not_filt_vars ==
    <<cls_vars, trip_vars, kpi_vars, rep_vars, fuel_vars, page_vars, trend_vars, comp_vars,
      parse_vars>>

(***************************************************************************)
(* JSON values.  Every scalar is a string: null, true and false are the    *)
(* reserved strings below, any other string is a JSON string.  A dict is a *)
(* function from a subset of its possible keys to scalars.                 *)
(***************************************************************************)
Null == "<null>"
JTrue == "<true>"
JFalse == "<false>"

\* Python truthiness of a scalar: None, False and "" are falsy.
Truthy(v) == v \notin {Null, JFalse, ""}

\* dict.get(key, default)
Get(d, key, default) == IF key \in DOMAIN d THEN d[key] ELSE default

\* Python's `x or y` on scalars
Or(x, y) == IF Truthy(x) THEN x ELSE y

\* str.lower() on the strings the model draws from
Lower(s) ==
    CASE s = "ACTIVE" -> "active"
      [] s = "Active" -> "active"
      [] s = "Idle" -> "idle"
      [] s = "OFFLINE" -> "offline"
      [] s = "PARKED" -> "parked"
      [] s = "Moving" -> "moving"
      [] OTHER -> s

EmptyDict == [k \in {} |-> Null]

(***************************************************************************)
(* Status classifier: GMAPI.get_tracker_status                             *)
(***************************************************************************)
\* the five returned strings, transliterated (the source has them in Russian)
Offline == "Ne v seti"
NoCoordinates == "Net koordinat"
Stopped == "Stoit"
IdlingIgnitionOn == "Stoit s vklyuchennym zazhiganiem"
Moving == "V dvizhenii"
CanonicalStatuses == {Offline, NoCoordinates, Stopped, IdlingIgnitionOn, Moving}

\* what a call yields when an attribute of None is read
AttributeError == "AttributeError"

offline_statuses == {"offline", "signal_lost", "just_registered", "just_replaced"}

\* A state object: tag "null" is None; "flat" is the dict d itself;
\* "nested" is {"state": d}; "nested_null" is {"state": None}.
StateIsFalsy(so) == so.tag = "null" \/ (so.tag = "flat" /\ DOMAIN so.d = {})

\* `(s.get(key) or "").lower()` without the `or ""` guard: None has no lower()
LowerOfUnguarded(s, key) ==
    IF Get(s, key, Null) = Null THEN AttributeError ELSE Lower(Get(s, key, Null))

LowerOf(s, key) == Lower(Or(Get(s, key, Null), ""))

\* Decide with "stopped" read as standing still
DecideStoppedStands(conn, move, ignition) ==
    IF conn \in offline_statuses \/ ~Truthy(conn) THEN Offline
    ELSE IF conn = "idle" THEN NoCoordinates
    ELSE IF conn = "active" /\ move \in {"parked", "stopped"}
        THEN (IF Truthy(ignition) THEN IdlingIgnitionOn ELSE Stopped)
    ELSE IF conn = "active" /\ move = "moving" THEN Moving
    ELSE Offline

\* lines 85-103, once conn, move and ignition are read
Decide(conn, move, ignition) ==
    IF conn \in offline_statuses \/ ~Truthy(conn) THEN Offline
    ELSE IF conn = "idle" THEN NoCoordinates
    ELSE IF conn = "active" /\ move = "parked"
        THEN (IF Truthy(ignition) THEN IdlingIgnitionOn ELSE Stopped)
    ELSE IF conn = "active" /\ move \in {"moving", "stopped"} THEN Moving
    ELSE Offline

get_tracker_status(so) ==
    IF StateIsFalsy(so) THEN Offline
    ELSE IF so.tag = "nested_null" THEN AttributeError
    ELSE LET s == so.d
             conn == LowerOf(s, "connection_status")
             move == LowerOf(s, "movement_status")
             ignition == Get(s, "ignition", JFalse)
         IN  IF AttributeError \in {conn, move} THEN AttributeError
             ELSE Decide(conn, move, ignition)

\* the values the classifier's fields are drawn from; Absent: the key is missing
Absent == "<absent>"
StateKeys == {"connection_status", "movement_status", "ignition"}
ConnChoices == {Absent, Null, "", "active", "ACTIVE", "idle", "Idle", "offline",
                "signal_lost", "just_registered", "just_replaced", "unknown"}
MoveChoices == {Absent, Null, "", "moving", "stopped", "parked", "PARKED", "unknown"}
IgnitionChoices == {Absent, Null, JTrue, JFalse}

MkStateDict(c, m, i) ==
    LET choice == [k \in StateKeys |->
                      CASE k = "connection_status" -> c
                        [] k = "movement_status" -> m
                        [] OTHER -> i]
    IN  [k \in {x \in StateKeys : choice[x] # Absent} |-> choice[k]]

StateObjects ==
    {[tag |-> "null", d |-> EmptyDict], [tag |-> "nested_null", d |-> EmptyDict]}
    \cup {[tag |-> t, d |-> MkStateDict(c, m, i)] :
            t \in {"flat", "nested"}, c \in ConnChoices,
            m \in MoveChoices, i \in IgnitionChoices}

ClsIdle == [tag |-> "null", d |-> EmptyDict]

InitClassify ==
    /\ state_obj \in StateObjects
    /\ cls_pc = "call"
    /\ cls_result = ""

ClsPinned ==
    /\ state_obj = ClsIdle
    /\ cls_pc = "idle"
    /\ cls_result = ""

\* one call of get_tracker_status(state_obj)
Classify ==
    /\ cls_pc = "call"
    /\ cls_result' = get_tracker_status(state_obj)
    /\ cls_pc' = "returned"
    /\ UNCHANGED <<state_obj, not_cls_vars>>

(***************************************************************************)
(* Concurrent fetch orchestrator: GMAPI.get_trips_parallel                 *)
(***************************************************************************)
MaxTrackers == 3
MaxPool == 2
attempts == 3
RetryPauseSeconds == 1

\* the bodies a successful get_trips call of tracker tid may carry: the
\* response of tracker 1 has no "list" key, the others list one trip
TripBodies(tid) == IF tid = 1 THEN {EmptyDict} ELSE {[list |-> <<tid>>]}

\* str(e) of the exception a failed get_trips call raised
ErrorText == "HTTPError"

\* what a function that falls off its end returns
PyNone == [id |-> 0, trips |-> <<>>, error |-> Null]

TrackerSet == 1..Len(tracker_ids)

\* the threads of the pool that are inside fetch_one
Running == {t \in TrackerSet : wpc[t] \in {"try", "sleep"}}

\* a pool that starts a thread for every submitted task
PoolStartsAlways == TRUE

\* ThreadPoolExecutor(max_workers): a task starts only on one of max_workers threads
PoolHasIdleThread == Cardinality(Running) < max_workers

\* a finished future holds either the value fetch_one returned or the
\* exception it raised; future.result() returns the one or raises the other
Returned(v) == [exc |-> Null, value |-> v]
Raised(e) == [exc |-> e, value |-> PyNone]

\* a last attempt that lets the exception out of fetch_one
FetchReraises(tid, e) == Raised(e)

\* line 152
FetchSucceeded(tid, data) ==
    Returned([id |-> tid, trips |-> Get(data, "list", <<>>), error |-> Null])

\* line 156
FetchFailed(tid, e) == Returned([id |-> tid, trips |-> <<>>, error |-> e])

\* the last-attempt test counted from 1
IsLastAttemptFromOne(a) == a = attempts

\* line 154
IsLastAttempt(a) == a = attempts - 1

\* leaving the with-block as soon as one result is in
ReturnsEarly == collected # {}

\* the for loop over as_completed ends when every future was yielded
AllCollected == collected = TrackerSet

InitTrips ==
    /\ \E n \in 0..MaxTrackers : tracker_ids = [i \in 1..n |-> i]
    /\ max_workers \in 1..MaxPool
    /\ always_fail \in SUBSET (1..Len(tracker_ids))
    /\ main_pc = "submit"
    /\ submitted = 0
    /\ wpc = [t \in 1..Len(tracker_ids) |-> "new"]
    /\ attempt = [t \in 1..Len(tracker_ids) |-> 0]
    /\ call_log = [t \in 1..Len(tracker_ids) |-> <<>>]
    /\ slept = [t \in 1..Len(tracker_ids) |-> 0]
    /\ served = [t \in 1..Len(tracker_ids) |-> EmptyDict]
    /\ future = [t \in 1..Len(tracker_ids) |-> <<>>]
    /\ results = <<>>
    /\ collected = {}

TripsPinned ==
    /\ tracker_ids = <<>>
    /\ max_workers = 1
    /\ always_fail = {}
    /\ main_pc = "idle"
    /\ submitted = 0
    /\ wpc = <<>>
    /\ attempt = <<>>
    /\ call_log = <<>>
    /\ slept = <<>>
    /\ served = <<>>
    /\ future = <<>>
    /\ results = <<>>
    /\ collected = {}

\* line 160: executor.submit(fetch_one, tid) for the next id of tracker_ids
Submit ==
    /\ main_pc = "submit"
    /\ submitted < Len(tracker_ids)
    /\ submitted' = submitted + 1
    /\ wpc' = [wpc EXCEPT ![tracker_ids[submitted + 1]] = "queued"]
    /\ UNCHANGED <<not_trip_vars, tracker_ids, max_workers, always_fail, main_pc, attempt, call_log,
                   slept, served, future, results, collected>>

\* line 160-161: the comprehension is over, the loop over as_completed begins
SubmitDone ==
    /\ main_pc = "submit"
    /\ submitted = Len(tracker_ids)
    /\ main_pc' = "collect"
    /\ UNCHANGED <<not_trip_vars, tracker_ids, max_workers, always_fail, submitted, wpc, attempt,
                   call_log, slept, served, future, results, collected>>

\* a pool thread takes the oldest queued task and enters fetch_one
Start(t) ==
    /\ wpc[t] = "queued"
    /\ \A u \in TrackerSet : wpc[u] = "queued" => t <= u
    /\ PoolHasIdleThread
    /\ wpc' = [wpc EXCEPT ![t] = "try"]
    /\ UNCHANGED <<not_trip_vars, tracker_ids, max_workers, always_fail, main_pc, submitted, attempt,
                   call_log, slept, served, future, results, collected>>

\* lines 151-152: get_trips returns, fetch_one returns the trips
CallOk(t) ==
    /\ wpc[t] = "try"
    /\ t \notin always_fail
    /\ \E data \in TripBodies(t) :
        /\ served' = [served EXCEPT ![t] = data]
        /\ future' = [future EXCEPT ![t] = <<FetchSucceeded(t, data)>>]
    /\ call_log' = [call_log EXCEPT ![t] = Append(@, "ok")]
    /\ wpc' = [wpc EXCEPT ![t] = "done"]
    /\ UNCHANGED <<not_trip_vars, tracker_ids, max_workers, always_fail, main_pc, submitted, attempt,
                   slept, results, collected>>

\* lines 153-157: get_trips raises; the last attempt returns the error,
\* an earlier one goes to sleep
CallFails(t) ==
    /\ wpc[t] = "try"
    /\ call_log' = [call_log EXCEPT ![t] = Append(@, "fail")]
    /\ IF IsLastAttempt(attempt[t])
         THEN /\ future' = [future EXCEPT ![t] = <<FetchFailed(t, ErrorText)>>]
              /\ wpc' = [wpc EXCEPT ![t] = "done"]
         ELSE /\ wpc' = [wpc EXCEPT ![t] = "sleep"]
              /\ UNCHANGED future
    /\ UNCHANGED <<not_trip_vars, tracker_ids, max_workers, always_fail, main_pc, submitted, attempt,
                   slept, served, results, collected>>

\* line 157 and the loop header: time.sleep(1) ends, the next attempt begins;
\* a loop that runs out returns None
Sleep(t) ==
    /\ wpc[t] = "sleep"
    /\ slept' = [slept EXCEPT ![t] = @ + RetryPauseSeconds]
    /\ attempt' = [attempt EXCEPT ![t] = @ + 1]
    /\ IF attempt[t] + 1 < attempts
         THEN /\ wpc' = [wpc EXCEPT ![t] = "try"]
              /\ UNCHANGED future
         ELSE /\ wpc' = [wpc EXCEPT ![t] = "done"]
              /\ future' = [future EXCEPT ![t] = <<Returned(PyNone)>>]
    /\ UNCHANGED <<not_trip_vars, tracker_ids, max_workers, always_fail, main_pc, submitted,
                   call_log, served, results, collected>>

\* lines 161-162: as_completed yields a finished future; future.result() is
\* appended, or raises what fetch_one raised
Collect(t) ==
    /\ main_pc = "collect"
    /\ t \notin collected
    /\ future[t] # <<>>
    /\ collected' = collected \cup {t}
    /\ IF future[t][1].exc = Null
         THEN /\ results' = Append(results, future[t][1].value)
              /\ UNCHANGED main_pc
         ELSE /\ main_pc' = "raised"
              /\ UNCHANGED results
    /\ UNCHANGED <<not_trip_vars, tracker_ids, max_workers, always_fail, submitted, wpc,
                   attempt, call_log, slept, served, future>>

\* lines 159-164: the loop is over, the with-block joins the pool, results is returned
Return ==
    /\ main_pc = "collect"
    /\ AllCollected
    /\ main_pc' = "returned"
    /\ UNCHANGED <<not_trip_vars, tracker_ids, max_workers, always_fail, submitted, wpc, attempt,
                   call_log, slept, served, future, results, collected>>

(***************************************************************************)
(* Aggregation: day partition and KPI loop of app.py (lines 410-470)       *)
(*                                                                         *)
(* The fields of a trip are JSON values of mixed type, so here a value is  *)
(* a record: JNum(n) a number, JStr(s) a string, JNone null.               *)
(***************************************************************************)
JNum(n) == [t |-> "num", s |-> "", n |-> n]
JStr(x) == [t |-> "str", s |-> x, n |-> 0]
JNone == [t |-> "null", s |-> "", n |-> 0]
JBool(b) == [t |-> "bool", s |-> "", n |-> IF b THEN 1 ELSE 0]

\* Python truthiness of a JSON value
TruthyJ(v) ==
    CASE v.t = "null" -> FALSE
      [] v.t = "num" -> v.n # 0
      [] v.t = "bool" -> v.n # 0
      [] OTHER -> v.s # ""

\* isinstance(v, (int, float))
IsNumber(v) == v.t \in {"num", "bool"}

(* Python floats.  A float is held as a whole number of units (a unit is a  *)
(* fixed binary fraction of a km); an addition is rounded to the nearest    *)
(* float, ties to even, as IEEE-754 does.  The mantissa has                 *)
(* FloatMantissaBits bits here; a binary64 has 53.                          *)
FloatMantissaBits == 3

RECURSIVE Pow2(_)
Pow2(k) == IF k = 0 THEN 1 ELSE 2 * Pow2(k - 1)

RECURSIVE BitLen(_)
BitLen(n) == IF n = 0 THEN 0 ELSE 1 + BitLen(n \div 2)

\* the float nearest to the non-negative number n, ties to even
RoundToFloat(n) ==
    IF BitLen(n) <= FloatMantissaBits THEN n
    ELSE LET e == BitLen(n) - FloatMantissaBits
             q == n \div Pow2(e)
             r == n % Pow2(e)
             half == Pow2(e - 1)
         IN  IF r > half \/ (r = half /\ q % 2 = 1)
               THEN (q + 1) * Pow2(e)
               ELSE q * Pow2(e)

\* a + b on floats
FloatAdd(a, b) == RoundToFloat(a + b)

\* float(x) of a number
ToFloat(n) == RoundToFloat(n)

\* the two observed days (lines 350-353, 410-411), for today = 2025-11-17
yesterday_str == "2025-11-16"
day_before_str == "2025-11-15"

\* start_str[:10] on the timestamps the model draws from
Prefix10(x) ==
    CASE x \in {"2025-11-16 10:00:00", "2025-11-16 10:30:00", "2025-11-16 00:10:00",
                "2025-11-16 18:00:00", "2025-11-16T10:30:00"} -> "2025-11-16"
      [] x \in {"2025-11-15 23:50:00"} -> "2025-11-15"
      [] x \in {"2025-11-14 09:00:00", "2025-11-14 09:20:00"} -> "2025-11-14"
      [] OTHER -> x

\* datetime.strptime(x, "%Y-%m-%d %H:%M:%S") as seconds since 2025-11-14 00:00:00;
\* ValueError when the string is not in that format
ValueError == -1
Strptime(x) ==
    CASE x = "2025-11-13 12:00:00" -> -43200
      [] x = "2025-11-14 00:00:00" -> 0
      [] x = "2025-11-14 09:00:00" -> 32400
      [] x = "2025-11-14 09:20:00" -> 33600
      [] x = "2025-11-15 23:50:00" -> 172200
      [] x = "2025-11-16 00:10:00" -> 173400
      [] x = "2025-11-16 10:00:00" -> 208800
      [] x = "2025-11-16 10:30:00" -> 210600
      [] x = "2025-11-16 18:00:00" -> 237600
      [] OTHER -> ValueError

\* the trips the fetch result is built from
TripMorning ==
    [start_date |-> JStr("2025-11-16 10:00:00"), end_date |-> JStr("2025-11-16 10:30:00"),
     length |-> JNum(8), idle_duration |-> JNum(60)]
TripNoEnd ==
    [start_date |-> JStr("2025-11-16 10:30:00"), length |-> JNum(1),
     duration |-> JNum(600)]
TripEvening ==
    [start_date |-> JStr("2025-11-16 18:00:00"), end_date |-> JStr("2025-11-16T10:30:00"),
     length |-> JNum(1), duration |-> JNum(300), idle_duration |-> JStr("n/a")]
TripOverMidnight ==
    [start_date |-> JStr("2025-11-15 23:50:00"), end_date |-> JStr("2025-11-16 00:10:00"),
     length |-> JNum(2), idle_duration |-> JNum(30)]
TripOld ==
    [start_date |-> JStr("2025-11-14 09:00:00"), end_date |-> JStr("2025-11-14 09:20:00"),
     length |-> JNum(4)]
TripNoStart == [length |-> JNum(2), duration |-> JNum(100)]
TripNullLength ==
    [start_date |-> JStr("2025-11-16 10:00:00"), end_date |-> JStr("2025-11-16 10:00:00"),
     length |-> JNone, duration |-> JNum(50), idle_duration |-> JNone]
TripBackwards ==
    [start_date |-> JStr("2025-11-16 10:30:00"), end_date |-> JStr("2025-11-16 10:00:00"),
     length |-> JNum(3), duration |-> JNum(900)]
TripTextLength ==
    [start_date |-> JStr("2025-11-16 10:00:00"), end_date |-> JStr("2025-11-16 10:30:00"),
     length |-> JStr("n/a")]
TripDigitsLength ==
    [start_date |-> JStr("2025-11-16 10:00:00"), end_date |-> JStr("2025-11-16 10:30:00"),
     length |-> JStr("2")]
TripTextDuration ==
    [start_date |-> JStr("2025-11-16 18:00:00"), length |-> JNum(1),
     duration |-> JStr("15 min")]

\* the "list" of one tracker's response
TripListChoices ==
    {<<>>, <<TripMorning>>, <<TripNoEnd, TripEvening>>, <<TripOverMidnight>>,
     <<TripMorning, TripOverMidnight>>, <<TripOld, TripNoStart>>,
     <<TripNullLength, TripNoEnd>>, <<TripOverMidnight, TripOld>>,
     <<TripBackwards>>, <<TripMorning, TripTextLength>>, <<TripDigitsLength>>,
     <<TripTextDuration, TripMorning>>}

MaxEntries == 2

\* dict.get(key) of a trip: None when the key is missing
TripGet(tr, key) == IF key \in DOMAIN tr THEN tr[key] ELSE JNone

\* a comparison of the whole timestamp with the day
StartedOnExact(tr, day) ==
    /\ TruthyJ(TripGet(tr, "start_date"))
    /\ TripGet(tr, "start_date").s = day

\* lines 424-434
StartedOn(tr, day) ==
    /\ TruthyJ(TripGet(tr, "start_date"))
    /\ Prefix10(TripGet(tr, "start_date").s) = day

IsYesterdayTrip(tr) == StartedOn(tr, yesterday_str)
IsDayBeforeTrip(tr) == ~IsYesterdayTrip(tr) /\ StartedOn(tr, day_before_str)

\* lines 416-437: one entry per item, in the order of two_days_trips
YesterdayBuckets(items) ==
    [i \in 1..Len(items) |->
        [id |-> items[i].id,
         trips |-> SelectSeq(items[i].trips, IsYesterdayTrip)]]

DayBeforeBuckets(items) ==
    [i \in 1..Len(items) |->
        [id |-> items[i].id,
         trips |-> SelectSeq(items[i].trips, IsDayBeforeTrip)]]

\* lines 440-441
CountActive(buckets) ==
    Cardinality({i \in 1..Len(buckets) : Len(buckets[i].trips) > 0})

\* all trips of the buckets, in the order the nested loops of line 447 visit them
RECURSIVE Flatten(_)
Flatten(buckets) ==
    IF buckets = <<>> THEN <<>>
    ELSE Head(buckets).trips \o Flatten(Tail(buckets))

\* float(text): the number a text reads as, ValueError for any other text
FloatOfText(x) ==
    CASE x = "2" -> 2
      [] x = "8" -> 8
      [] OTHER -> ValueError

\* line 449: float(tr.get("length", 0) or 0); ValueError when float raises
LengthOf(tr) ==
    LET v == IF "length" \in DOMAIN tr THEN tr["length"] ELSE JNum(0)
    IN  IF ~TruthyJ(v) THEN ToFloat(0)
        ELSE IF v.t = "str"
          THEN IF FloatOfText(v.s) = ValueError THEN ValueError
               ELSE ToFloat(FloatOfText(v.s))
        ELSE ToFloat(v.n)

\* total_move_time += x raises TypeError when x is a str
TypeError == ValueError - 1

\* tr.get("duration") or 0, as it is added to total_move_time
DurationOf(tr) ==
    LET v == TripGet(tr, "duration")
    IN  IF ~TruthyJ(v) THEN 0
        ELSE IF v.t = "str" THEN TypeError
        ELSE v.n

\* a loop that adds the difference of the dates whatever its sign
MoveTimeOfSigned(tr) ==
    LET s_str == TripGet(tr, "start_date")
        e_str == TripGet(tr, "end_date")
    IN  IF TruthyJ(s_str) /\ TruthyJ(e_str)
          THEN IF Strptime(s_str.s) = ValueError \/ Strptime(e_str.s) = ValueError
                 THEN DurationOf(tr)
                 ELSE Strptime(e_str.s) - Strptime(s_str.s)
          ELSE DurationOf(tr)

\* lines 452-465: what one trip adds to total_move_time; TypeError when the
\* addition raises
MoveTimeOf(tr) ==
    LET s_str == TripGet(tr, "start_date")
        e_str == TripGet(tr, "end_date")
    IN  IF TruthyJ(s_str) /\ TruthyJ(e_str)
          THEN IF Strptime(s_str.s) = ValueError \/ Strptime(e_str.s) = ValueError
                 THEN DurationOf(tr)
                 ELSE LET dur == Strptime(e_str.s) - Strptime(s_str.s)
                      IN  IF dur > 0 THEN dur ELSE 0
          ELSE DurationOf(tr)

\* lines 468-470: what one trip adds to total_idle_time
IdleTimeOf(tr) ==
    LET v == TripGet(tr, "idle_duration")
        idle_sec == IF TruthyJ(v) THEN v ELSE JNum(0)
    IN  IF IsNumber(idle_sec) THEN idle_sec.n ELSE 0

\* total_distance = 0.0, then += in loop order
RECURSIVE SumDistance(_, _)
SumDistance(trips, acc) ==
    IF trips = <<>> THEN acc
    ELSE SumDistance(Tail(trips), FloatAdd(acc, LengthOf(Head(trips))))

\* the integer sums of lines 460-470 (whole seconds: exact in Python)
RECURSIVE SumMoveTime(_, _)
SumMoveTime(trips, acc) ==
    IF trips = <<>> THEN acc
    ELSE SumMoveTime(Tail(trips), acc + MoveTimeOf(Head(trips)))

RECURSIVE SumIdleTime(_, _)
SumIdleTime(trips, acc) ==
    IF trips = <<>> THEN acc
    ELSE SumIdleTime(Tail(trips), acc + IdleTimeOf(Head(trips)))

\* the statement of the loop body that raises on the trip: line 449 on a
\* length float() rejects, line 463 or 465 on a duration that is a str
RaisesAt(tr) ==
    IF LengthOf(tr) = ValueError THEN "length"
    ELSE IF MoveTimeOf(tr) = TypeError THEN "duration"
    ELSE ""

\* the index of the first trip the loop raises on, 0 when it runs to its end
FirstRaise(trips) ==
    IF \E i \in 1..Len(trips) : RaisesAt(trips[i]) # ""
      THEN CHOOSE i \in 1..Len(trips) :
              /\ RaisesAt(trips[i]) # ""
              /\ \A j \in 1..(i - 1) : RaisesAt(trips[j]) = ""
      ELSE 0

\* lines 413-470 on a fetch result; nothing on the page catches an exception
\* of the loop, the totals then hold what was added before it
Kpi(items) ==
    LET y == YesterdayBuckets(items)
        db == DayBeforeBuckets(items)
        trips == Flatten(y)
        k == FirstRaise(trips)
        whole == IF k = 0 THEN trips ELSE SubSeq(trips, 1, k - 1)
        dist == SumDistance(whole, 0)
    IN  [yesterday_trips |-> y,
         day_before_trips |-> db,
         active_count |-> CountActive(y),
         prev_active_count |-> CountActive(db),
         total_distance |-> IF k # 0 /\ RaisesAt(trips[k]) = "duration"
                              THEN FloatAdd(dist, LengthOf(trips[k])) ELSE dist,
         total_move_time |-> SumMoveTime(whole, 0),
         total_idle_time |-> SumIdleTime(whole, 0),
         raised |-> k # 0]

\* the orders in which n fetches can complete
Orders(n) == {o \in [1..n -> 1..n] : \A i, j \in 1..n : o[i] = o[j] => i = j}

InitKpi ==
    /\ \E n \in 0..MaxEntries :
         \E lists \in [1..n -> TripListChoices], o \in Orders(n) :
            two_days_trips = [i \in 1..n |-> [id |-> o[i], trips |-> lists[o[i]]]]
    /\ kpi_pc = "loaded"
    /\ yesterday_trips = <<>>
    /\ day_before_trips = <<>>
    /\ active_count = 0
    /\ prev_active_count = 0
    /\ total_distance = 0
    /\ total_move_time = 0
    /\ total_idle_time = 0

KpiPinned ==
    /\ two_days_trips = <<>>
    /\ kpi_pc = "idle"
    /\ yesterday_trips = <<>>
    /\ day_before_trips = <<>>
    /\ active_count = 0
    /\ prev_active_count = 0
    /\ total_distance = 0
    /\ total_move_time = 0
    /\ total_idle_time = 0

\* lines 413-470 run on the loaded fetch result
ComputeKpi ==
    /\ kpi_pc = "loaded"
    /\ LET k == Kpi(two_days_trips) IN
        /\ yesterday_trips' = k.yesterday_trips
        /\ day_before_trips' = k.day_before_trips
        /\ active_count' = k.active_count
        /\ prev_active_count' = k.prev_active_count
        /\ total_distance' = k.total_distance
        /\ total_move_time' = k.total_move_time
        /\ total_idle_time' = k.total_idle_time
        /\ kpi_pc' = IF k.raised THEN "raised" ELSE "done"
    /\ UNCHANGED <<not_kpi_vars, two_days_trips>>

(***************************************************************************)
(* Report pipeline: load_fuel_data (app.py 71-95) over                     *)
(* GMAPI._post_with_retry, get_report_status and retrieve_report.          *)
(*                                                                         *)
(* rep[p] holds the locals of the call p of load_fuel_data: "y" is the     *)
(* report of yesterday.  One action is one HTTP request with the handling  *)
(* of its response, the sleep that follows included.                       *)
(***************************************************************************)
max_retries == 5
StatusAttempts == 3
RetrieveAttempts == 3
PollCap == 30

\* the values of the "error" entry of the returned dict
NoReportIdText == "no report id"
TimeoutText == "report timeout"
HTTPErrorText == "HTTPError"
ConnectionErrorText == "ConnectionError"
NoneTypeErrorText == "'NoneType' object has no attribute 'get'"

\* how a request can fail other than by a 429 answer: a non-2xx status
\* (raise_for_status) or a network fault
RequestFaults == {HTTPErrorText, ConnectionErrorText}

\* bodies of a 2xx answer
GenBodies == {EmptyDict, [id |-> JNone], [id |-> JNum(0)], [id |-> JNum(7)]}
StatusBodies ==
    {[success |-> JBool(TRUE), percent_ready |-> JNum(100)],
     [success |-> JBool(TRUE), percent_ready |-> JNum(50)],
     [success |-> JBool(FALSE), percent_ready |-> JNum(100)]}
\* the "total" row of a fuel report: per metric an item {"raw": number}
TotalRow(fillings, drains, used) ==
    [fillingsCount |-> [raw |-> JNum(2)],
     fillingsVolume |-> [raw |-> JNum(fillings)],
     drainsCount |-> [raw |-> JNum(1)],
     drainsVolume |-> [raw |-> JNum(drains)],
     consumed |-> [raw |-> JNum(used)]]

TotalRows ==
    {TotalRow(100, 10, 40), TotalRow(50, 10, 40), TotalRow(0, 5, 30),
     TotalRow(-100, 10, 40)}

\* a successful report with one sheet, one section and one data block
MkReport(total) ==
    [success |-> JBool(TRUE),
     report |-> [sheets |-> <<[sections |-> <<[data |-> <<[total |-> total]>>]>>]>>]]

ReportBodies ==
    {[success |-> JBool(TRUE)], [success |-> JBool(FALSE)]}
        \cup {MkReport(total) : total \in TotalRows}

\* dict.get(key) on a body
BodyGet(d, key) == IF key \in DOMAIN d THEN d[key] ELSE JNone

\* a backoff that doubles without the added second
BackoffWaitDoubling(a) == Pow2(a)

\* line 178
BackoffWait(a) == Pow2(a) + 1

\* a test for the key instead of its value
HasIdKey(gen_resp) == "id" \in DOMAIN gen_resp

\* app.py line 79: report_id is truthy
HasReportId(gen_resp) == TruthyJ(BodyGet(gen_resp, "id"))

\* a readiness test that forgets the success flag
IsReadyByPercent(status) == BodyGet(status, "percent_ready") = JNum(100)

\* app.py line 85
IsReady(status) ==
    /\ TruthyJ(BodyGet(status, "success"))
    /\ BodyGet(status, "percent_ready") = JNum(100)

\* a loop that polls once more than range(30) does
MorePollsInclusive(polls) == polls <= PollCap

\* app.py line 83: after the poll number polls the for loop has another one
MorePolls(polls) == polls < PollCap

\* what load_fuel_data returned: a dict with an "error" entry, the body of
\* the retrieved report, or None
NotReturned == [kind |-> "running", error |-> "", body |-> EmptyDict]
ErrorDict(text) == [kind |-> "error", error |-> text, body |-> EmptyDict]
ReportDict(body) == [kind |-> "report", error |-> "", body |-> body]
NoneReturned == [kind |-> "none", error |-> "", body |-> EmptyDict]

\* how a call of _post_with_retry, get_report_status or retrieve_report
\* ended towards its caller: it returned the body of the answer, it raised,
\* or it fell out of its retry loop and returned None
NoCall == [op |-> "", out |-> ""]
ReturnedBody(op) == [op |-> op, out |-> "body"]
RaisedError(op) == [op |-> op, out |-> "raised"]
ReturnedNone(op) == [op |-> op, out |-> "None"]

\* limited and faults count the 429 answers and the other failures of the
\* call in progress; call is how the latest finished call ended
RepStart ==
    [pc |-> "generate", attempt |-> 0, posts |-> 0, waits |-> <<>>,
     gen_resp |-> <<>>, polls |-> 0, requests |-> 0, status |-> EmptyDict,
     retrieves |-> 0, returned |-> NotReturned,
     limited |-> 0, faults |-> 0, call |-> NoCall]

Pipelines == DOMAIN rep

InitReport == rep = [p \in {"y"} |-> RepStart]

RepPinned == rep = <<>>

\* a result that ends every running call, not only the call p
FinishAll(p, r, out) ==
    rep' = [q \in DOMAIN rep |->
               IF q = p THEN [r EXCEPT !.pc = "done", !.returned = out]
               ELSE [rep[q] EXCEPT !.pc = "done", !.returned = out]]

Finish(p, r, out) == rep' = [rep EXCEPT ![p] = [r EXCEPT !.pc = "done", !.returned = out]]

\* gm_api 176-181: the POST is answered 429; back off and try again, or
\* fall out of the loop, return None and fail at gen_resp.get (app.py 77, 94)
GenRateLimited(p) ==
    /\ rep[p].pc = "generate"
    /\ LET r == [rep[p] EXCEPT !.posts = @ + 1,
                               !.waits = Append(@, BackoffWait(rep[p].attempt)),
                               !.attempt = @ + 1,
                               !.limited = @ + 1]
       IN  IF rep[p].attempt + 1 < max_retries
             THEN rep' = [rep EXCEPT ![p] = r]
             ELSE Finish(p, [r EXCEPT !.call = ReturnedNone("generate")],
                         ErrorDict(NoneTypeErrorText))
    /\ UNCHANGED not_rep_vars

\* gm_api 176, 183-190: the POST fails otherwise; the exception leaves
\* _post_with_retry and is caught at app.py 94
GenFails(p) ==
    /\ rep[p].pc = "generate"
    /\ \E e \in RequestFaults :
        Finish(p, [rep[p] EXCEPT !.posts = @ + 1, !.faults = @ + 1,
                                 !.call = RaisedError("generate")],
               ErrorDict(e))
    /\ UNCHANGED not_rep_vars

\* gm_api 183-184, app.py 76-82: the POST returns a body; without a report
\* id the run ends, with one the first status poll begins
GenReturns(p) ==
    /\ rep[p].pc = "generate"
    /\ \E body \in GenBodies :
        LET r == [rep[p] EXCEPT !.posts = @ + 1, !.gen_resp = <<body>>,
                                !.call = ReturnedBody("generate")]
        IN  IF HasReportId(body)
              THEN rep' = [rep EXCEPT ![p] =
                              [r EXCEPT !.pc = "poll", !.polls = 1,
                                        !.attempt = 0, !.requests = 0,
                                        !.limited = 0, !.faults = 0]]
              ELSE Finish(p, r, ErrorDict(NoReportIdText))
    /\ UNCHANGED not_rep_vars

\* gm_api 250-253: the status GET is answered 429; sleep 2 and try again, or
\* fall out of the loop, return None and fail at status.get (app.py 85, 94)
StatusRateLimited(p) ==
    /\ rep[p].pc = "poll"
    /\ LET r == [rep[p] EXCEPT !.requests = @ + 1, !.attempt = @ + 1,
                               !.limited = @ + 1]
       IN  IF rep[p].attempt + 1 < StatusAttempts
             THEN rep' = [rep EXCEPT ![p] = r]
             ELSE Finish(p, [r EXCEPT !.call = ReturnedNone("status")],
                         ErrorDict(NoneTypeErrorText))
    /\ UNCHANGED not_rep_vars

\* gm_api 250, 254-258: the status GET fails otherwise; sleep 1 and try
\* again, or on the last attempt raise (caught at app.py 94)
StatusFails(p) ==
    /\ rep[p].pc = "poll"
    /\ \E e \in RequestFaults :
        LET r == [rep[p] EXCEPT !.requests = @ + 1, !.attempt = @ + 1,
                                !.faults = @ + 1]
        IN  IF rep[p].attempt = StatusAttempts - 1
              THEN Finish(p, [r EXCEPT !.call = RaisedError("status")],
                          ErrorDict(e))
              ELSE rep' = [rep EXCEPT ![p] = r]
    /\ UNCHANGED not_rep_vars

\* gm_api 254-255, app.py 83-92: the status GET returns a body; when ready,
\* retrieve_report is called; otherwise sleep 2 and poll again, or give up
\* after the last of the polls
StatusReturns(p) ==
    /\ rep[p].pc = "poll"
    /\ \E body \in StatusBodies :
        LET r == [rep[p] EXCEPT !.requests = @ + 1, !.status = body,
                                !.call = ReturnedBody("status")]
        IN  IF IsReady(body)
              THEN rep' = [rep EXCEPT ![p] =
                              [r EXCEPT !.pc = "retrieve", !.retrieves = @ + 1,
                                        !.attempt = 0, !.requests = 0,
                                        !.limited = 0, !.faults = 0]]
              ELSE IF MorePolls(rep[p].polls)
                THEN rep' = [rep EXCEPT ![p] =
                                [r EXCEPT !.polls = @ + 1, !.attempt = 0,
                                          !.requests = 0,
                                          !.limited = 0, !.faults = 0]]
                ELSE Finish(p, r, ErrorDict(TimeoutText))
    /\ UNCHANGED not_rep_vars

\* gm_api 270-273: the retrieve GET is answered 429; sleep 2 and try again,
\* or fall out of the loop: retrieve_report and load_fuel_data return None
RetrieveRateLimited(p) ==
    /\ rep[p].pc = "retrieve"
    /\ LET r == [rep[p] EXCEPT !.requests = @ + 1, !.attempt = @ + 1,
                               !.limited = @ + 1]
       IN  IF rep[p].attempt + 1 < RetrieveAttempts
             THEN rep' = [rep EXCEPT ![p] = r]
             ELSE Finish(p, [r EXCEPT !.call = ReturnedNone("retrieve")],
                         NoneReturned)
    /\ UNCHANGED not_rep_vars

\* gm_api 270, 274-278: the retrieve GET fails otherwise
RetrieveFails(p) ==
    /\ rep[p].pc = "retrieve"
    /\ \E e \in RequestFaults :
        LET r == [rep[p] EXCEPT !.requests = @ + 1, !.attempt = @ + 1,
                                !.faults = @ + 1]
        IN  IF rep[p].attempt = RetrieveAttempts - 1
              THEN Finish(p, [r EXCEPT !.call = RaisedError("retrieve")],
                          ErrorDict(e))
              ELSE rep' = [rep EXCEPT ![p] = r]
    /\ UNCHANGED not_rep_vars

\* gm_api 274-275, app.py 92: the report body is returned
RetrieveReturns(p) ==
    /\ rep[p].pc = "retrieve"
    /\ \E body \in ReportBodies :
        Finish(p, [rep[p] EXCEPT !.requests = @ + 1,
                                 !.call = ReturnedBody("retrieve")],
               ReportDict(body))
    /\ UNCHANGED not_rep_vars

(***************************************************************************)
(* Fuel block of the page (app.py 545-664): the two calls of               *)
(* load_fuel_data, the check of their results, parse_fuel_report, the      *)
(* metrics of yesterday, the trends against the day before and the loss    *)
(* percentage.  A variable that holds None or a value is a sequence of     *)
(* length 0 or 1.  Volumes are whole litres; a quotient is kept as an      *)
(* exact fraction in lowest terms.                                         *)
(***************************************************************************)
Abs(x) == IF x < 0 THEN -x ELSE x

RECURSIVE Gcd(_, _)
Gcd(a, b) == IF b = 0 THEN a ELSE Gcd(b, a % b)

\* the fraction n / d, d # 0
Rat(n, d) ==
    LET g == Gcd(Abs(n), Abs(d))
        sgn == IF d < 0 THEN -1 ELSE 1
    IN  [num |-> (sgn * n) \div g, den |-> (sgn * d) \div g]

RatSub(a, b) == Rat(a.num * b.den - b.num * a.den, a.den * b.den)

\* f"{val:+.1f}": the number of tenths nearest to val
RoundTenths(val) ==
    LET a == Abs(val.num) * 10
        fl == a \div val.den
        r == a % val.den
        m == IF 2 * r > val.den \/ (2 * r = val.den /\ fl % 2 = 1)
               THEN fl + 1 ELSE fl
    IN  IF val.num < 0 THEN -m ELSE m

\* lines 617-620: None for a change below 0.1, else the signed text
fmt_trend(val, suffix) ==
    IF 10 * Abs(val.num) < val.den THEN <<>>
    ELSE <<[tenths |-> RoundTenths(val), suffix |-> suffix]>>

\* str(TypeError) of `"error" in None`
NoneNotIterableText == "argument of type 'NoneType' is not iterable"

MetricKeys ==
    {"fillingsCount", "fillingsVolume", "drainsCount", "drainsVolume", "consumed"}

\* a JSON object, as opposed to a scalar
IsDict(v) == "t" \notin DOMAIN v

\* lines 592-594: get_val(obj, key)
get_val(obj, key) ==
    LET item == IF key \in DOMAIN obj THEN obj[key] ELSE EmptyDict
        raw == IF "raw" \in DOMAIN item THEN item["raw"] ELSE JNone
    IN  IF IsNumber(raw) THEN raw.n ELSE 0

\* lines 587-589: the chain of subscripts finds the data block
HasDataBlock(body) ==
    /\ "report" \in DOMAIN body
    /\ "sheets" \in DOMAIN body["report"]
    /\ Len(body["report"]["sheets"]) >= 1
    /\ "sections" \in DOMAIN body["report"]["sheets"][1]
    /\ Len(body["report"]["sheets"][1]["sections"]) >= 1
    /\ "data" \in DOMAIN body["report"]["sheets"][1]["sections"][1]
    /\ Len(body["report"]["sheets"][1]["sections"][1]["data"]) >= 1

\* a parser that gives up when the data block has no "total" entry
ParseNeedsTotal(report) ==
    IF report = <<>> THEN EmptyDict
    ELSE LET body == report[1] IN
        IF body = EmptyDict \/ ~TruthyJ(BodyGet(body, "success")) THEN EmptyDict
        ELSE IF ~HasDataBlock(body) THEN EmptyDict
        ELSE LET data_block == body["report"]["sheets"][1]["sections"][1]["data"][1]
             IN  IF "total" \notin DOMAIN data_block \/ ~IsDict(data_block["total"])
                   THEN EmptyDict
                   ELSE [fillings_count |-> get_val(data_block["total"], "fillingsCount"),
                         fillings_vol |-> get_val(data_block["total"], "fillingsVolume"),
                         drains_count |-> get_val(data_block["total"], "drainsCount"),
                         drains_vol |-> get_val(data_block["total"], "drainsVolume"),
                         consumed |-> get_val(data_block["total"], "consumed")]

\* lines 583-604; report is <<>> for None.  get_val raises AttributeError on
\* a total row or an item that is not a dict (None.get), and the except of
\* line 603 turns that into the empty dict
parse_fuel_report(report) ==
    IF report = <<>> THEN EmptyDict
    ELSE LET body == report[1] IN
        IF body = EmptyDict \/ ~TruthyJ(BodyGet(body, "success")) THEN EmptyDict
        ELSE IF ~HasDataBlock(body) THEN EmptyDict
        ELSE LET data_block == body["report"]["sheets"][1]["sections"][1]["data"][1]
                 total_row == IF "total" \in DOMAIN data_block
                                THEN data_block["total"] ELSE EmptyDict
             IN  IF \/ ~IsDict(total_row)
                    \/ \E k \in MetricKeys :
                            k \in DOMAIN total_row /\ ~IsDict(total_row[k])
                   THEN EmptyDict
                   ELSE [fillings_count |-> get_val(total_row, "fillingsCount"),
                         fillings_vol |-> get_val(total_row, "fillingsVolume"),
                         drains_count |-> get_val(total_row, "drainsCount"),
                         drains_vol |-> get_val(total_row, "drainsVolume"),
                         consumed |-> get_val(total_row, "consumed")]

\* data.get(key, 0)
MetricGet(data, key) == IF key \in DOMAIN data THEN data[key] ELSE 0

\* a loss percentage without the factor 100
LossPctAsShare(drains_vol, fillings_vol) ==
    IF fillings_vol > 0 THEN Rat(drains_vol, fillings_vol) ELSE Rat(0, 1)

\* lines 640-643, 646-649 and 661-664
LossPct(drains_vol, fillings_vol) ==
    IF fillings_vol > 0 THEN Rat(drains_vol * 100, fillings_vol) ELSE Rat(0, 1)

\* everything load_fuel_data can return
LoadFuelDataOutcomes ==
    {ErrorDict(t) : t \in {NoReportIdText, TimeoutText, NoneTypeErrorText}
                            \cup RequestFaults}
        \cup {ReportDict(b) : b \in ReportBodies}
        \cup {NoneReturned}

FuelStart ==
    [pc |-> "wait", fuel_data_y |-> NotReturned, fuel_data_db |-> NotReturned,
     fuel_report_y |-> <<>>, fuel_report_db |-> <<>>,
     data_y |-> EmptyDict, data_db |-> EmptyDict,
     fillings_vol |-> 0, drains_vol |-> 0, consumed |-> 0,
     trend_str |-> <<>>, consumed_trend_str |-> <<>>, drains_trend_str |-> <<>>,
     loss_pct_trend_str |-> <<>>, loss_pct |-> <<>>, loss_pct_db |-> <<>>,
     rendered |-> FALSE, raised |-> ""]

FuelPinned == fuel = FuelStart

\* lines 565-576: the report, or None when the result has an "error" entry
ReportOf(fuel_data) == IF fuel_data.kind = "error" THEN <<>> ELSE <<fuel_data.body>>

\* lines 623-664: the trends and the loss percentages
WithTrends(f) ==
    IF f.data_db # EmptyDict
      THEN LET fillings_vol_db == MetricGet(f.data_db, "fillings_vol")
               consumed_db == MetricGet(f.data_db, "consumed")
               drains_vol_db == MetricGet(f.data_db, "drains_vol")
               loss_pct_db == LossPct(drains_vol_db, fillings_vol_db)
               loss_pct == LossPct(f.drains_vol, f.fillings_vol)
           IN  [f EXCEPT
                  !.trend_str = fmt_trend(Rat(f.fillings_vol - fillings_vol_db, 1), "l"),
                  !.consumed_trend_str = fmt_trend(Rat(f.consumed - consumed_db, 1), "l"),
                  !.drains_trend_str = fmt_trend(Rat(f.drains_vol - drains_vol_db, 1), "l"),
                  !.loss_pct_db = <<loss_pct_db>>,
                  !.loss_pct = <<loss_pct>>,
                  !.loss_pct_trend_str = fmt_trend(RatSub(loss_pct, loss_pct_db), "%")]
      ELSE [f EXCEPT !.loss_pct = <<LossPct(f.drains_vol, f.fillings_vol)>>]

\* lines 580-664 once both reports are assigned
Render(f) ==
    IF /\ f.fuel_report_y # <<>>
       /\ f.fuel_report_y[1] # EmptyDict
       /\ TruthyJ(BodyGet(f.fuel_report_y[1], "success"))
      THEN LET data_y == parse_fuel_report(f.fuel_report_y)
           IN  WithTrends([f EXCEPT !.pc = "done",
                                    !.rendered = TRUE,
                                    !.data_y = data_y,
                                    !.data_db = parse_fuel_report(f.fuel_report_db),
                                    !.fillings_vol = MetricGet(data_y, "fillings_vol"),
                                    !.drains_vol = MetricGet(data_y, "drains_vol"),
                                    !.consumed = MetricGet(data_y, "consumed")])
      ELSE [f EXCEPT !.pc = "done"]

\* lines 561-576: the results of the two futures are checked for "error";
\* a result that is None makes the `in` test raise TypeError, which nothing
\* on the page catches
AfterLoad(y, db) ==
    LET f == [FuelStart EXCEPT !.fuel_data_y = y, !.fuel_data_db = db] IN
        IF y.kind = "none"
          THEN [f EXCEPT !.pc = "raised", !.raised = NoneNotIterableText]
        ELSE IF db.kind = "none"
          THEN [f EXCEPT !.pc = "raised", !.raised = NoneNotIterableText,
                         !.fuel_report_y = ReportOf(y)]
        ELSE Render([f EXCEPT !.fuel_report_y = ReportOf(y),
                              !.fuel_report_db = ReportOf(db)])

\* the page starts the fuel block with no active tracker (no report is
\* requested) or with the report call of the day before submitted
InitFuel ==
    /\ rep \in {<<>>, [p \in {"db"} |-> RepStart]}
    /\ fuel = FuelStart

\* lines 545-664, from the moment both futures have a result: with no
\* report requested both reports are None; otherwise the call for yesterday
\* has returned one of the outcomes of load_fuel_data and the call for the
\* day before the outcome of rep["db"]
FuelBlock ==
    /\ fuel.pc = "wait"
    /\ \A p \in Pipelines : rep[p].pc = "done"
    /\ IF Pipelines = {}
         THEN fuel' = Render(FuelStart)
         ELSE \E y \in LoadFuelDataOutcomes :
                fuel' = AfterLoad(y, rep["db"].returned)
    /\ UNCHANGED not_fuel_vars

(***************************************************************************)
(* The page script (app.py 199-578) stage by stage: tracker list, tracker  *)
(* states, status tally, then the trip fetch, the KPI computation and the  *)
(* fuel block.  The last three stages are followed here only as far as     *)
(* whether the script reaches them; what they compute is the subject of    *)
(* SpecTrips, SpecKpi and SpecFuel.                                        *)
(***************************************************************************)
MaxFleet == 2

\* tracker_ids of line 210: the ids of data["list"], in the order received
TrackerLists ==
    {<<>>} \cup {<<i>> : i \in 1..MaxFleet}
           \cup {sq \in (1..MaxFleet) \X (1..MaxFleet) : sq[1] # sq[2]}

\* the state objects the states response is built from
PageStateChoices ==
    {[tag |-> "nested", d |-> MkStateDict("active", "moving", JTrue)],
     [tag |-> "flat", d |-> MkStateDict("active", "parked", JTrue)],
     [tag |-> "nested", d |-> MkStateDict("idle", Absent, Absent)],
     [tag |-> "null", d |-> EmptyDict]}

Range(seq) == {seq[i] : i \in 1..Len(seq)}

\* states_response.get("states", {}): a state for some of the requested ids
StatesResponses(ids) ==
    UNION {[S -> PageStateChoices] : S \in SUBSET Range(ids)}

\* lines 223-239: the counters of the pie chart and their names
Rides == "Edet"
Stands == "Stoit"
Idles == "Kholostoy khod"
CounterNames == {Rides, Stands, Idles, NoCoordinates, Offline}

status_norm_map(raw_status) ==
    CASE raw_status = Moving -> Rides
      [] raw_status = IdlingIgnitionOn -> Idles
      [] OTHER -> raw_status

\* lines 241-244
Tally(states) ==
    [c \in CounterNames |->
        Cardinality({tid \in DOMAIN states :
                        status_norm_map(get_tracker_status(states[tid])) = c})]

PageStart ==
    [pc |-> "trackers", tracker_ids |-> <<>>, states_called |-> FALSE,
     states |-> EmptyDict, list_failed |-> FALSE, states_failed |-> FALSE,
     counters |-> [c \in CounterNames |-> 0], ran |-> {}]

InitPage == page = PageStart

PagePinned == page = PageStart

\* a failed states fetch that ends the script
OnStatesErrorStop(pg) ==
    [pg EXCEPT !.states_called = TRUE, !.states_failed = TRUE, !.pc = "stopped"]

\* lines 218-220: the error is shown, states is the empty dict, the script goes on
OnStatesError(pg) ==
    [pg EXCEPT !.states_called = TRUE, !.states_failed = TRUE,
               !.states = EmptyDict, !.pc = "tally"]

\* lines 199-203: load_trackers raises; st.stop()
LoadTrackersFails ==
    /\ page.pc = "trackers"
    /\ page' = [page EXCEPT !.list_failed = TRUE, !.pc = "stopped"]
    /\ UNCHANGED not_page_vars

\* lines 205-207: the response has no "list" key; st.stop()
LoadTrackersNoList ==
    /\ page.pc = "trackers"
    /\ page' = [page EXCEPT !.pc = "stopped"]
    /\ UNCHANGED not_page_vars

\* lines 199-210
LoadTrackersReturns ==
    /\ page.pc = "trackers"
    /\ \E ids \in TrackerLists :
        page' = [page EXCEPT !.tracker_ids = ids, !.pc = "states"]
    /\ UNCHANGED not_page_vars

\* lines 215-220: load_states raises
LoadStatesFails ==
    /\ page.pc = "states"
    /\ page' = OnStatesError(page)
    /\ UNCHANGED not_page_vars

\* lines 215-217
LoadStatesReturns ==
    /\ page.pc = "states"
    /\ \E st \in StatesResponses(page.tracker_ids) :
        page' = [page EXCEPT !.states_called = TRUE, !.states = st, !.pc = "tally"]
    /\ UNCHANGED not_page_vars

\* lines 222-244; a state object get_tracker_status raises on ends the script
TallyStatuses ==
    /\ page.pc = "tally"
    /\ IF \E tid \in DOMAIN page.states :
            get_tracker_status(page.states[tid]) = AttributeError
         THEN page' = [page EXCEPT !.pc = "raised"]
         ELSE page' = [page EXCEPT !.counters = Tally(page.states), !.pc = "trips"]
    /\ UNCHANGED not_page_vars

\* lines 398-407: load_trips_stats is called (get_trips_parallel returns a
\* list for every input, so the except branch of line 403 is not taken)
PageFetchTrips ==
    /\ page.pc = "trips"
    /\ page' = [page EXCEPT !.ran = @ \cup {"trips"}, !.pc = "kpi"]
    /\ UNCHANGED not_page_vars

\* lines 410-500
PageComputeKpis ==
    /\ page.pc = "kpi"
    /\ page' = [page EXCEPT !.ran = @ \cup {"kpi"}, !.pc = "fuel"]
    /\ UNCHANGED not_page_vars

\* lines 545-578
PageFuelBlock ==
    /\ page.pc = "fuel"
    /\ page' = [page EXCEPT !.ran = @ \cup {"fuel"}, !.pc = "done"]
    /\ UNCHANGED not_page_vars

(***************************************************************************)
(* Trend of the active count (app.py 485-500).  A text made of an optional *)
(* sign and a whole number is held as [sign, digits].                      *)
(***************************************************************************)
MaxCount == 10

TrendUp == "up: Bolshe, chem pozavchera"
TrendDown == "down: Menshe, chem pozavchera"
TrendSame == "same: Bez izmeneniy"

\* f"{n}" of an int
IntText(n) == [sign |-> IF n < 0 THEN "-" ELSE "", digits |-> Abs(n)]

\* the int a text reads as
TextValue(text) == IF text.sign = "-" THEN -text.digits ELSE text.digits

\* lines 486, 492, 497: the label
trend_label(active, prev) ==
    IF active > prev THEN TrendUp
    ELSE IF active < prev THEN TrendDown
    ELSE TrendSame

\* a delta shown without its sign
trend_text_unsigned(active, prev) ==
    [sign |-> "", digits |-> Abs(active - prev)]

\* lines 489-491, 495-496, 500: the delta as shown
trend_text(active, prev) ==
    IF active > prev
      THEN LET trend_val == active - prev
               trend_sign == IF trend_val > 0 THEN "+" ELSE ""
           IN  [sign |-> trend_sign, digits |-> IntText(trend_val).digits]
    ELSE IF active < prev THEN IntText(active - prev)
    ELSE IntText(0)

TrendIdle ==
    [pc |-> "idle", active_count |-> 0, prev_active_count |-> 0,
     trend |-> "", trend_text |-> IntText(0)]

\* the two counts of lines 440-441 are computed
InitTrend ==
    \E a \in 0..MaxCount, p \in 0..MaxCount :
        kpi_trend = [TrendIdle EXCEPT !.pc = "counted", !.active_count = a,
                                      !.prev_active_count = p]

TrendPinned == kpi_trend = TrendIdle

\* lines 485-500
ComputeTrend ==
    /\ kpi_trend.pc = "counted"
    /\ kpi_trend' =
         [kpi_trend EXCEPT
            !.pc = "done",
            !.trend = trend_label(kpi_trend.active_count, kpi_trend.prev_active_count),
            !.trend_text = trend_text(kpi_trend.active_count,
                                      kpi_trend.prev_active_count)]
    /\ UNCHANGED not_trend_vars

(***************************************************************************)
(* Compliance buckets: process_driver_licenses and process_insurance       *)
(* (app.py 97-171).  A date is a number of days since 2025-05-01; an       *)
(* entry of a details list is the position of the entity in the input      *)
(* list, standing for its name.                                            *)
(***************************************************************************)
MaxEntities == 2

\* datetime.strptime(x, "%Y-%m-%d").date() on the strings the model draws
\* from; ValueError when the string is not in that format
ParseDate(x) ==
    CASE x = "2025-05-01" -> 0
      [] x = "2025-05-31" -> 30
      [] x = "2025-06-01" -> 31
      [] x = "2025-06-20" -> 50
      [] x = "2025-06-30" -> 60
      [] x = "2025-07-01" -> 61
      [] x = "2026-01-01" -> 245
      [] OTHER -> ValueError

\* datetime.now().date(): 2025-06-01 or 2025-06-02
Todays == {31, 32}

SoonDays == 30

LicenseValues ==
    {JNone, JStr(""), JStr("n/a"), JStr("2025-05-01"), JStr("2025-05-31"),
     JStr("2025-06-01"), JStr("2025-06-20"), JStr("2025-06-30"),
     JStr("2025-07-01"), JStr("2026-01-01")}

\* an employee with or without the license field
EmployeeChoices ==
    {EmptyDict} \cup {[driver_license_valid_till |-> v] : v \in LicenseValues}

LiabilityValues ==
    {JNone, JStr(""), JStr("20.06.2025"), JStr("2025-05-31"), JStr("2025-06-20")}

ComprehensiveValues == {JStr(""), JStr("2025-05-01"), JStr("2025-07-01")}

\* a vehicle with or without each of the two insurance fields
VehicleChoices ==
    {EmptyDict}
    \cup {[liability_insurance_valid_till |-> o] : o \in LiabilityValues}
    \cup {[free_insurance_valid_till |-> k] : k \in ComprehensiveValues}
    \cup {[liability_insurance_valid_till |-> o, free_insurance_valid_till |-> k] :
            o \in LiabilityValues, k \in ComprehensiveValues}

BucketNames == {"ok", "expiring", "expired", "empty"}

\* `a or b`
OrJ(a, b) == IF TruthyJ(a) THEN a ELSE b

\* line 106
LicenseDate(emp) == BodyGet(emp, "driver_license_valid_till")

\* lines 145-147
InsuranceDate(v) ==
    OrJ(BodyGet(v, "liability_insurance_valid_till"),
        BodyGet(v, "free_insurance_valid_till"))

\* a limit that counts the thirtieth day as soon
BucketOfInclusive(valid_till, today) ==
    IF ~TruthyJ(valid_till) THEN "empty"
    ELSE LET dt == ParseDate(valid_till.s)
             soon_limit == today + SoonDays
         IN  IF dt = ValueError THEN "empty"
             ELSE IF dt < today THEN "expired"
             ELSE IF today <= dt /\ dt <= soon_limit THEN "expiring"
             ELSE "ok"

\* lines 108-129 and 149-169: the bucket of one entity
BucketOf(valid_till, today) ==
    IF ~TruthyJ(valid_till) THEN "empty"
    ELSE LET dt == ParseDate(valid_till.s)
             soon_limit == today + SoonDays
         IN  IF dt = ValueError THEN "empty"
             ELSE IF dt < today THEN "expired"
             ELSE IF today <= dt /\ dt < soon_limit THEN "expiring"
             ELSE "ok"

\* the loop over the entities: per bucket, the entities in input order
DetailsOf(dates, today) ==
    [b \in BucketNames |->
        SelectSeq([i \in 1..Len(dates) |-> i],
                  LAMBDA i : BucketOf(dates[i], today) = b)]

StatsOf(dates, today) ==
    [b \in BucketNames |->
        Cardinality({i \in 1..Len(dates) : BucketOf(dates[i], today) = b})]

CompIdle ==
    [pc |-> "idle", fn |-> "", today |-> 0, entities |-> <<>>,
     stats |-> [b \in BucketNames |-> 0], details |-> [b \in BucketNames |-> <<>>]]

ListsOf(choices) == UNION {[1..n -> choices] : n \in 0..MaxEntities}

InitCompliance ==
    \E today \in Todays :
        \/ \E employees \in ListsOf(EmployeeChoices) :
            comp = [CompIdle EXCEPT !.pc = "call", !.fn = "process_driver_licenses",
                                    !.today = today, !.entities = employees]
        \/ \E vehicles \in ListsOf(VehicleChoices) :
            comp = [CompIdle EXCEPT !.pc = "call", !.fn = "process_insurance",
                                    !.today = today, !.entities = vehicles]

CompPinned == comp = CompIdle

\* lines 97-131
process_driver_licenses ==
    /\ comp.pc = "call"
    /\ comp.fn = "process_driver_licenses"
    /\ LET dates == [i \in 1..Len(comp.entities) |-> LicenseDate(comp.entities[i])]
       IN  comp' = [comp EXCEPT !.pc = "returned",
                                !.stats = StatsOf(dates, comp.today),
                                !.details = DetailsOf(dates, comp.today)]
    /\ UNCHANGED not_comp_vars

\* lines 133-171
process_insurance ==
    /\ comp.pc = "call"
    /\ comp.fn = "process_insurance"
    /\ LET dates == [i \in 1..Len(comp.entities) |-> InsuranceDate(comp.entities[i])]
       IN  comp' = [comp EXCEPT !.pc = "returned",
                                !.stats = StatsOf(dates, comp.today),
                                !.details = DetailsOf(dates, comp.today)]
    /\ UNCHANGED not_comp_vars

(***************************************************************************)
(* parse_fuel_report (app.py 583-604) as a function of its argument: None, *)
(* a report body that is a JSON object, or a body that is a JSON string.   *)
(***************************************************************************)
\* what a metric of the total row can hold: null, an item with a number, an
\* item whose raw is null or a text, an item without raw
ItemValues ==
    {JNone, [raw |-> JNum(7)], [raw |-> JNum(-3)], [raw |-> JNone],
     [raw |-> JStr("7")], EmptyDict}

\* total rows: any subset of the metrics present, each with one of the values
ParseTotals == UNION {[K -> ItemValues] : K \in SUBSET MetricKeys}

\* a successful report down to its list of data blocks
ReportWithData(data) ==
    [success |-> JBool(TRUE),
     report |-> [sheets |-> <<[sections |-> <<[data |-> data]>>]>>]]

\* reports with a level of the nesting missing
BrokenReports ==
    {EmptyDict,
     [success |-> JBool(FALSE)],
     [success |-> JBool(FALSE),
      report |-> [sheets |-> <<[sections |-> <<[data |-> <<[total |-> EmptyDict]>>]>>]>>]],
     [success |-> JBool(TRUE)],
     [success |-> JBool(TRUE), report |-> EmptyDict],
     [success |-> JBool(TRUE), report |-> [sheets |-> <<>>]],
     [success |-> JBool(TRUE), report |-> [sheets |-> <<EmptyDict>>]],
     [success |-> JBool(TRUE), report |-> [sheets |-> <<[sections |-> <<>>]>>]],
     [success |-> JBool(TRUE), report |-> [sheets |-> <<[sections |-> <<EmptyDict>>]>>]],
     ReportWithData(<<>>)}

\* reports whose data block has no "total" entry, or a null one
NoTotalReport == ReportWithData(<<EmptyDict>>)
NullTotalReport == ReportWithData(<<[total |-> JNone]>>)

\* the arguments of parse_fuel_report: None is <<>>
ParseArguments ==
    {<<>>, <<JStr("busy")>>, <<NoTotalReport>>, <<NullTotalReport>>}
        \cup {<<b>> : b \in BrokenReports}
        \cup {<<MkReport(total)>> : total \in ParseTotals}

\* line 584 is outside the try of line 586: rep.get raises AttributeError
\* when rep is truthy and not a dict
ParseRaises(report) ==
    /\ report # <<>>
    /\ ~IsDict(report[1])
    /\ TruthyJ(report[1])

ParseIdle == [pc |-> "idle", rep |-> <<>>, data |-> EmptyDict, raised |-> ""]

InitParse ==
    \E r \in ParseArguments :
        parse = [pc |-> "call", rep |-> r, data |-> EmptyDict, raised |-> ""]

ParsePinned == parse = ParseIdle

\* one call of parse_fuel_report(rep)
ParseReport ==
    /\ parse.pc = "call"
    /\ IF ParseRaises(parse.rep)
         THEN parse' = [parse EXCEPT !.pc = "raised", !.raised = AttributeError]
         ELSE parse' = [parse EXCEPT !.pc = "returned",
                                     !.data = parse_fuel_report(parse.rep)]
    /\ UNCHANGED not_parse_vars

(***************************************************************************)
(* Active-tracker filter (app.py 359-394).  states is the "states" object  *)
(* of the JSON body of get_states: response.json() gives every key of a    *)
(* JSON object as a str.  tracker_ids holds int(t["id"]) (line 210).  A    *)
(* dict key is kept with its type, as Python compares keys by type and     *)
(* value.                                                                  *)
(***************************************************************************)
StrKey(n) == [t |-> "str", text |-> IntText(n)]
IntKey(n) == [t |-> "int", n |-> n]

\* the values of last_update; NoField: the key is missing
NoField == [t |-> "absent", s |-> "", n |-> 0]
LastUpdates ==
    {NoField, JNone, JStr(""), JStr("2025-11-13 12:00:00"), JStr("2025-11-14 00:00:00"),
     JStr("2025-11-16 10:00:00"), JStr("2025-11-16T10:30:00")}

\* a state object with the field at the top level or under "state"
FilterStateChoices ==
    {[tag |-> tg, d |-> IF lu = NoField THEN EmptyDict ELSE [last_update |-> lu]] :
        tg \in {"flat", "nested"}, lu \in LastUpdates}

\* json of the states response: an entry for some of the requested ids
FilterStates(ids) ==
    UNION {[{StrKey(i) : i \in S} -> FilterStateChoices] : S \in SUBSET Range(ids)}

\* line 363: period_start_dt, the start of the day before, and line 388:
\* period_start_dt - timedelta(days=1), in the seconds of Strptime
period_start_dt == 86400
ActiveSince == period_start_dt - 86400

\* a lookup that finds the state under the text of the id
StateOfByText(states, tid) ==
    IF StrKey(tid) \in DOMAIN states THEN states[StrKey(tid)].d ELSE EmptyDict

\* lines 369-372: states.get(tid, {}) with the int tid, then
\* state_obj.get("state", state_obj); both give the dict that holds the field
StateOf(states, tid) ==
    IF IntKey(tid) \in DOMAIN states THEN states[IntKey(tid)].d ELSE EmptyDict

\* lines 373-392 for one tracker
IsActive(states, tid) ==
    LET last_upd_str == BodyGet(StateOf(states, tid), "last_update")
    IN  \/ ~TruthyJ(last_upd_str)
        \/ Strptime(last_upd_str.s) = ValueError
        \/ Strptime(last_upd_str.s) >= ActiveSince

\* lines 367-392: the ids kept, in the order of tracker_ids
RECURSIVE ActiveIds(_, _)
ActiveIds(states, ids) ==
    IF ids = <<>> THEN <<>>
    ELSE IF IsActive(states, Head(ids))
      THEN <<Head(ids)>> \o ActiveIds(states, Tail(ids))
      ELSE ActiveIds(states, Tail(ids))

FilterIdle ==
    [pc |-> "idle", tracker_ids |-> <<>>, states |-> EmptyDict,
     active_tracker_ids |-> <<>>]

\* the script reaches line 359 with tracker_ids and the states it fetched
\* (the empty dict after a failed fetch, line 220)
InitFilter ==
    \E ids \in TrackerLists :
        \E st \in FilterStates(ids) :
            filt = [pc |-> "filter", tracker_ids |-> ids, states |-> st,
                    active_tracker_ids |-> <<>>]

FilterPinned == filt = FilterIdle

\* lines 359-394
FilterActive ==
    /\ filt.pc = "filter"
    /\ filt' = [filt EXCEPT !.pc = "fetch",
                            !.active_tracker_ids = ActiveIds(filt.states, filt.tracker_ids)]
    /\ UNCHANGED not_filt_vars

(***************************************************************************)
(* The specifications                                                      *)
(***************************************************************************)
NextClassify == Classify

InitClassifyOnly ==
    /\ InitClassify
    /\ TripsPinned
    /\ KpiPinned
    /\ RepPinned
    /\ FuelPinned
    /\ PagePinned
    /\ TrendPinned
    /\ CompPinned
    /\ ParsePinned
    /\ FilterPinned

SpecClassify == InitClassifyOnly /\ [][NextClassify]_vars

NextTrips ==
    \/ Submit
    \/ SubmitDone
    \/ \E t \in TrackerSet : Start(t)
    \/ \E t \in TrackerSet : CallOk(t)
    \/ \E t \in TrackerSet : CallFails(t)
    \/ \E t \in TrackerSet : Sleep(t)
    \/ \E t \in TrackerSet : Collect(t)
    \/ Return

InitTripsOnly ==
    /\ InitTrips
    /\ ClsPinned
    /\ KpiPinned
    /\ RepPinned
    /\ FuelPinned
    /\ PagePinned
    /\ TrendPinned
    /\ CompPinned
    /\ ParsePinned
    /\ FilterPinned

SpecTrips == InitTripsOnly /\ [][NextTrips]_vars

NextKpi == ComputeKpi

InitKpiOnly ==
    /\ InitKpi
    /\ ClsPinned
    /\ TripsPinned
    /\ RepPinned
    /\ FuelPinned
    /\ PagePinned
    /\ TrendPinned
    /\ CompPinned
    /\ ParsePinned
    /\ FilterPinned

SpecKpi == InitKpiOnly /\ [][NextKpi]_vars

NextReport ==
    \/ \E p \in Pipelines : GenRateLimited(p)
    \/ \E p \in Pipelines : GenFails(p)
    \/ \E p \in Pipelines : GenReturns(p)
    \/ \E p \in Pipelines : StatusRateLimited(p)
    \/ \E p \in Pipelines : StatusFails(p)
    \/ \E p \in Pipelines : StatusReturns(p)
    \/ \E p \in Pipelines : RetrieveRateLimited(p)
    \/ \E p \in Pipelines : RetrieveFails(p)
    \/ \E p \in Pipelines : RetrieveReturns(p)

InitReportOnly ==
    /\ InitReport
    /\ ClsPinned
    /\ TripsPinned
    /\ KpiPinned
    /\ FuelPinned
    /\ PagePinned
    /\ TrendPinned
    /\ CompPinned
    /\ ParsePinned
    /\ FilterPinned

SpecReport == InitReportOnly /\ [][NextReport]_vars

NextFuel ==
    \/ \E p \in Pipelines : GenRateLimited(p)
    \/ \E p \in Pipelines : GenFails(p)
    \/ \E p \in Pipelines : GenReturns(p)
    \/ \E p \in Pipelines : StatusRateLimited(p)
    \/ \E p \in Pipelines : StatusFails(p)
    \/ \E p \in Pipelines : StatusReturns(p)
    \/ \E p \in Pipelines : RetrieveRateLimited(p)
    \/ \E p \in Pipelines : RetrieveFails(p)
    \/ \E p \in Pipelines : RetrieveReturns(p)
    \/ FuelBlock

InitFuelOnly ==
    /\ InitFuel
    /\ ClsPinned
    /\ TripsPinned
    /\ KpiPinned
    /\ PagePinned
    /\ TrendPinned
    /\ CompPinned
    /\ ParsePinned
    /\ FilterPinned

SpecFuel == InitFuelOnly /\ [][NextFuel]_vars

NextPage ==
    \/ LoadTrackersFails
    \/ LoadTrackersNoList
    \/ LoadTrackersReturns
    \/ LoadStatesFails
    \/ LoadStatesReturns
    \/ TallyStatuses
    \/ PageFetchTrips
    \/ PageComputeKpis
    \/ PageFuelBlock

InitPageOnly ==
    /\ InitPage
    /\ ClsPinned
    /\ TripsPinned
    /\ KpiPinned
    /\ RepPinned
    /\ FuelPinned
    /\ TrendPinned
    /\ CompPinned
    /\ ParsePinned
    /\ FilterPinned

SpecPage == InitPageOnly /\ [][NextPage]_vars

NextTrend == ComputeTrend

InitTrendOnly ==
    /\ InitTrend
    /\ ClsPinned
    /\ TripsPinned
    /\ KpiPinned
    /\ RepPinned
    /\ FuelPinned
    /\ PagePinned
    /\ CompPinned
    /\ ParsePinned
    /\ FilterPinned

SpecTrend == InitTrendOnly /\ [][NextTrend]_vars

NextCompliance ==
    \/ process_driver_licenses
    \/ process_insurance

InitComplianceOnly ==
    /\ InitCompliance
    /\ ClsPinned
    /\ TripsPinned
    /\ KpiPinned
    /\ RepPinned
    /\ FuelPinned
    /\ PagePinned
    /\ TrendPinned
    /\ ParsePinned
    /\ FilterPinned

SpecCompliance == InitComplianceOnly /\ [][NextCompliance]_vars

NextParse == ParseReport

InitParseOnly ==
    /\ InitParse
    /\ ClsPinned
    /\ TripsPinned
    /\ KpiPinned
    /\ RepPinned
    /\ FuelPinned
    /\ PagePinned
    /\ TrendPinned
    /\ CompPinned
    /\ FilterPinned

SpecParse == InitParseOnly /\ [][NextParse]_vars
NextFilter == FilterActive

InitFilterOnly ==
    /\ InitFilter
    /\ ClsPinned
    /\ TripsPinned
    /\ KpiPinned
    /\ RepPinned
    /\ FuelPinned
    /\ PagePinned
    /\ TrendPinned
    /\ CompPinned
    /\ ParsePinned

SpecFilter == InitFilterOnly /\ [][NextFilter]_vars
\* app.py 557-559: both calls of load_fuel_data are submitted to the pool of
\* two workers, and each runs on a thread of its own from the start
InitPair == rep = [p \in {"y", "db"} |-> RepStart]

\* the service is ready by the poll MaxPairPolls at the latest
MaxPairPolls == 1

NextPair ==
    \/ \E p \in Pipelines : GenRateLimited(p)
    \/ \E p \in Pipelines : GenFails(p)
    \/ \E p \in Pipelines : GenReturns(p)
    \/ \E p \in Pipelines : StatusRateLimited(p)
    \/ \E p \in Pipelines : StatusFails(p)
    \/ \E p \in Pipelines : StatusReturns(p) /\ rep'[p].polls <= MaxPairPolls
    \/ \E p \in Pipelines : RetrieveRateLimited(p)
    \/ \E p \in Pipelines : RetrieveFails(p)
    \/ \E p \in Pipelines : RetrieveReturns(p)

InitPairOnly ==
    /\ InitPair
    /\ ClsPinned
    /\ TripsPinned
    /\ KpiPinned
    /\ FuelPinned
    /\ PagePinned
    /\ TrendPinned
    /\ CompPinned
    /\ ParsePinned
    /\ FilterPinned

SpecPair == InitPairOnly /\ [][NextPair]_vars
\* one run of get_trips_parallel, or one run of load_fuel_data
InitBounded ==
    \/ InitTripsOnly
    \/ InitReportOnly

NextBounded ==
    \/ Submit
    \/ SubmitDone
    \/ \E t \in TrackerSet : Start(t)
    \/ \E t \in TrackerSet : CallOk(t)
    \/ \E t \in TrackerSet : CallFails(t)
    \/ \E t \in TrackerSet : Sleep(t)
    \/ \E t \in TrackerSet : Collect(t)
    \/ Return
    \/ \E p \in Pipelines : GenRateLimited(p)
    \/ \E p \in Pipelines : GenFails(p)
    \/ \E p \in Pipelines : GenReturns(p)
    \/ \E p \in Pipelines : StatusRateLimited(p)
    \/ \E p \in Pipelines : StatusFails(p)
    \/ \E p \in Pipelines : StatusReturns(p)
    \/ \E p \in Pipelines : RetrieveRateLimited(p)
    \/ \E p \in Pipelines : RetrieveFails(p)
    \/ \E p \in Pipelines : RetrieveReturns(p)

\* every request is answered or fails, every sleep ends, and a thread that
\* can take a step takes one: a step that is possible is eventually taken
SpecBounded == InitBounded /\ [][NextBounded]_vars /\ WF_vars(NextBounded)

(***************************************************************************)
(* Properties of the status classifier (SpecClassify)                      *)
(***************************************************************************)

ReferenceStatus(c, m, i) ==
    CASE c \in {"", "offline", "signal_lost", "just_registered", "just_replaced"}
            -> Offline
      [] c = "idle" -> NoCoordinates
      [] c = "active" /\ m = "parked" /\ i = JTrue -> IdlingIgnitionOn
      [] c = "active" /\ m = "parked" /\ i = JFalse -> Stopped
      [] c = "active" /\ m = "moving" -> Moving
      [] c = "active" /\ m = "stopped" -> Moving
      [] OTHER -> Offline

ReferenceConn ==
    {"", "active", "idle", "offline", "signal_lost", "just_registered",
     "just_replaced", "unknown"}
ReferenceMove == {"", "moving", "stopped", "parked", "unknown"}

\* the state carries all three fields, each from the bounded sets of C2
InReferenceDomain(so) ==
    /\ so.tag \in {"flat", "nested"}
    /\ DOMAIN so.d = StateKeys
    /\ so.d["connection_status"] \in ReferenceConn
    /\ so.d["movement_status"] \in ReferenceMove
    /\ so.d["ignition"] \in {JTrue, JFalse}

\* C2: on every state built from the bounded sets the classifier returns
\* what the ordered first-match reference gives.
ClassifierMatchesReference ==
    (cls_pc = "returned" /\ InReferenceDomain(state_obj))
        => cls_result = ReferenceStatus(state_obj.d["connection_status"],
                                        state_obj.d["movement_status"],
                                        state_obj.d["ignition"])

\* an active tracker reported as stopped, ignition off, was classified Moving
ClassifierReferenceWitness ==
    /\ cls_pc = "returned"
    /\ InReferenceDomain(state_obj)
    /\ state_obj.d["connection_status"] = "active"
    /\ state_obj.d["movement_status"] = "stopped"
    /\ state_obj.d["ignition"] = JFalse
    /\ cls_result = Moving

(***************************************************************************)
(* Properties of get_trips_parallel (SpecTrips)                            *)
(***************************************************************************)
AllFailed(t) == \A i \in 1..Len(call_log[t]) : call_log[t][i] = "fail"
SomeOk(t) == \E i \in 1..Len(call_log[t]) : call_log[t][i] = "ok"
EntriesOf(t) == {i \in 1..Len(results) : results[i].id = t}

\* C3: the call never raises, and when it has returned the list holds one
\* entry per input id: an id whose every fetch failed carries an error
\* string and no trips, an id with a successful fetch carries no error and
\* the trips of the service's response.
PartialFailureIsAValue ==
    /\ main_pc # "raised"
    /\ main_pc = "returned" =>
        /\ Len(results) = Len(tracker_ids)
        /\ \A t \in TrackerSet : Cardinality(EntriesOf(t)) = 1
        /\ \A i \in 1..Len(results) :
            LET r == results[i] IN
                /\ r.id \in TrackerSet
                /\ (r.id \in always_fail \/ AllFailed(r.id))
                        => (r.error # Null /\ r.trips = <<>>)
                /\ SomeOk(r.id)
                        => (r.error = Null
                            /\ r.trips = Get(served[r.id], "list", <<>>))

\* three trackers were fetched: tracker 2 always fails, the two others are
\* served, and the entry of the failing one is not the last of the list
PartialFailureWitness ==
    /\ main_pc = "returned"
    /\ Len(tracker_ids) = 3
    /\ always_fail = {2}
    /\ SomeOk(1) /\ SomeOk(3)
    /\ results[1] = [id |-> 3, trips |-> <<3>>, error |-> Null]
    /\ results[2] = [id |-> 2, trips |-> <<>>, error |-> ErrorText]
    /\ results[3] = [id |-> 1, trips |-> <<>>, error |-> Null]

PausesBefore(t) ==
    IF wpc[t] = "try" THEN Len(call_log[t])
    ELSE IF Len(call_log[t]) = 0 THEN 0 ELSE Len(call_log[t]) - 1

\* C4: per tracker at most 3 get_trips calls, none after a successful one,
\* one 1-second pause between two consecutive attempts and none after the
\* last one, and an error recorded exactly when all 3 attempts failed.
RetryDiscipline ==
    \A t \in TrackerSet :
        /\ Len(call_log[t]) <= 3
        /\ \A i \in 1..(Len(call_log[t]) - 1) : call_log[t][i] = "fail"
        /\ slept[t] = 1 * PausesBefore(t)
        /\ wpc[t] = "done" =>
            /\ future[t] # <<>>
            /\ future[t][1].exc = Null
            /\ future[t][1].value.error # Null
                    <=> call_log[t] = <<"fail", "fail", "fail">>
            /\ SomeOk(t) => future[t][1].value.error = Null

\* one tracker succeeded at its third attempt, another failed all three
RetryDisciplineWitness ==
    \E t, u \in TrackerSet :
        /\ wpc[t] = "done" /\ call_log[t] = <<"fail", "fail", "ok">>
        /\ slept[t] = 2 /\ future[t][1].value.error = Null
        /\ wpc[u] = "done" /\ call_log[u] = <<"fail", "fail", "fail">>
        /\ slept[u] = 2 /\ future[u][1].value.error # Null

\* C5: the number of trackers whose fetch is in progress (calling or
\* pausing) never exceeds max_workers.
BoundedConcurrency == Cardinality(Running) <= max_workers

\* the pool is full while a submitted fetch waits for a thread
BoundedConcurrencyWitness ==
    /\ Cardinality(Running) = max_workers
    /\ \E t \in TrackerSet : wpc[t] = "queued"
    /\ \E t \in TrackerSet : wpc[t] = "sleep"

\* C6 as stated: results are merged into the list only after all workers
\* have completed, never while some fetch is still running.
MergeOnlyAfterJoin ==
    results # <<>> => \A t \in TrackerSet : wpc[t] = "done"

\* C6 amended: no worker writes the result list; the calling thread appends
\* a worker's result only once that worker has completed (other fetches
\* may still be running), and the list is returned only after all workers
\* have completed and all results are merged.
MergeAfterOwnCompletion ==
    /\ [](/\ Len(results) <= Cardinality(collected)
          /\ \A i \in 1..Len(results) :
                \E t \in collected :
                    /\ wpc[t] = "done"
                    /\ future[t] = <<Returned(results[i])>>
          /\ main_pc = "returned" =>
                /\ \A t \in TrackerSet : wpc[t] = "done"
                /\ Len(results) = Len(tracker_ids))
    /\ [][results' # results =>
            /\ main_pc = "collect"
            /\ UNCHANGED <<wpc, attempt, call_log, slept, served, future>>]_vars

\* a result is already merged while another fetch is still in progress
MergeWhileRunningWitness ==
    /\ results # <<>>
    /\ \E t \in TrackerSet : wpc[t] \in {"try", "sleep"}

(***************************************************************************)
(* Properties of the aggregation (SpecKpi)                                 *)
(***************************************************************************)
BucketsById(buckets) == {<<buckets[i].id, buckets[i].trips>> : i \in 1..Len(buckets)}

Reordered(items, o) == [i \in 1..Len(items) |-> items[o[i]]]

\* C7: the KPI results (the two buckets of each tracker id, the active
\* counts, total distance, move time and idle time) are the same for every
\* order in which the entries of the fetch result can arrive.
KpiOrderIndependent ==
    kpi_pc = "done" =>
        \A o \in Orders(Len(two_days_trips)) :
            LET k == Kpi(Reordered(two_days_trips, o)) IN
                /\ BucketsById(k.yesterday_trips) = BucketsById(yesterday_trips)
                /\ BucketsById(k.day_before_trips) = BucketsById(day_before_trips)
                /\ k.active_count = active_count
                /\ k.prev_active_count = prev_active_count
                /\ k.total_distance = total_distance
                /\ k.total_move_time = total_move_time
                /\ k.total_idle_time = total_idle_time

(***************************************************************************)
(* Properties of the report pipeline (SpecReport)                          *)
(***************************************************************************)
ReadyBody == [success |-> JBool(TRUE), percent_ready |-> JNum(100)]

\* C8: when the generation response carries no report id (no "id" entry, or
\* a null or zero one), the run has ended in the "no report id" failure and
\* has issued no status poll and no retrieve request.
NoReportIdIsTerminal ==
    \A p \in Pipelines :
        LET r == rep[p] IN
            (/\ r.gen_resp # <<>>
             /\ r.gen_resp[1] \in {EmptyDict, [id |-> JNone], [id |-> JNum(0)]})
            => /\ r.pc = "done"
               /\ r.returned = ErrorDict(NoReportIdText)
               /\ r.polls = 0
               /\ r.requests = 0
               /\ r.status = EmptyDict
               /\ r.retrieves = 0

\* after two rate-limited POSTs the generation answered with a null id
NoReportIdWitness ==
    /\ rep["y"].pc = "done"
    /\ rep["y"].waits = <<2, 3>>
    /\ rep["y"].gen_resp = <<[id |-> JNone]>>
    /\ rep["y"].returned = ErrorDict(NoReportIdText)

\* C9: retrieve_report is called at most once per run and only after a
\* status poll returned success=true with percent_ready=100, and no status
\* poll is in progress once that response has arrived.
RetrieveOnlyWhenReady ==
    \A p \in Pipelines :
        LET r == rep[p] IN
            /\ r.retrieves <= 1
            /\ r.retrieves = 1 => r.status = ReadyBody
            /\ r.pc = "retrieve" => r.retrieves = 1
            /\ r.pc = "poll" => (r.status # ReadyBody /\ r.retrieves = 0)
            /\ r.returned.kind \in {"report", "none"} => r.retrieves = 1

\* the third poll was the ready one and the report was downloaded
RetrieveOnlyWhenReadyWitness ==
    /\ rep["y"].pc = "done"
    /\ rep["y"].polls = 3
    /\ rep["y"].status = ReadyBody
    /\ rep["y"].retrieves = 1
    /\ rep["y"].returned.kind = "report"

\* C10: at most 30 status polls are issued, and a run that polled without
\* ever getting success with percent_ready=100 ends in the timeout failure,
\* whatever the status service answered, without calling retrieve_report.
NoReadyPollMeansTimeout ==
    \A p \in Pipelines :
        LET r == rep[p] IN
            /\ r.polls <= 30
            /\ (r.pc = "done" /\ r.polls >= 1 /\ r.status # ReadyBody)
                => (r.returned = ErrorDict(TimeoutText) /\ r.retrieves = 0)

\* C11: every run that ended without a report body ended in one of three
\* failures, each matching its cause: "no report id" when generation
\* returned a body without an id, the timeout when the last of the polls
\* was not ready, the error of the request when a call raised it.
FailureKindsMatchCause ==
    \A p \in Pipelines :
        LET r == rep[p] IN
            (r.pc = "done" /\ r.returned.kind # "report")
            => \/ /\ r.returned = ErrorDict(NoReportIdText)
                  /\ r.gen_resp # <<>>
                  /\ ~HasReportId(r.gen_resp[1])
               \/ /\ r.returned = ErrorDict(TimeoutText)
                  /\ r.polls = PollCap
                  /\ ~IsReady(r.status)
               \/ /\ r.returned.kind = "error"
                  /\ r.returned.error \in RequestFaults
                  /\ r.call.out = "raised"

\* the number of requests a call of the operation may send
AllowedAttempts(op) ==
    CASE op = "generate" -> max_retries
      [] op = "status" -> StatusAttempts
      [] op = "retrieve" -> RetrieveAttempts
      [] OTHER -> 0

\* C12: a call whose every allowed attempt was answered 429 has raised the
\* HTTP error to its caller (so the run returned that error), it has not
\* returned a value.
RateLimitExhaustionRaises ==
    \A p \in Pipelines :
        LET r == rep[p] IN
            (r.pc = "done" /\ r.limited = AllowedAttempts(r.call.op))
            => /\ r.call.out = "raised"
               /\ r.returned = ErrorDict(HTTPErrorText)

\* C19: the waits of a generation call are 2, 3, 5, 9, 17 seconds, one
\* after each POST answered 429 and in this order, and the call sends no
\* more than 5 POSTs.
GenerationBackoff ==
    \A p \in Pipelines :
        LET r == rep[p] IN
            /\ r.posts <= 5
            /\ Len(r.waits) <= r.posts
            /\ r.posts <= Len(r.waits) + 1
            /\ \A k \in 1..Len(r.waits) : r.waits[k] = <<2, 3, 5, 9, 17>>[k]
            /\ r.pc = "generate" => Len(r.waits) = r.limited

\* all five POSTs of a generation call were answered 429
GenerationBackoffWitness ==
    /\ rep["y"].posts = 5
    /\ rep["y"].waits = <<2, 3, 5, 9, 17>>
    /\ rep["y"].call = ReturnedNone("generate")

\* C20: a failure other than a 429 answer ends the call it happens in: the
\* call has raised it and has sent no request after it.
FaultSurfacesAtOnce ==
    \A p \in Pipelines :
        LET r == rep[p] IN
            r.faults >= 1 => /\ r.faults = 1
                             /\ r.pc = "done"
                             /\ r.call.out = "raised"

(***************************************************************************)
(* Properties of the fuel block (SpecFuel)                                 *)
(***************************************************************************)
\* the report call for yesterday returned a successful report
YesterdayReportOk ==
    /\ fuel.fuel_data_y.kind = "report"
    /\ TruthyJ(BodyGet(fuel.fuel_data_y.body, "success"))

\* C13: whatever failure the report call for the day before ended in, the
\* fuel block runs to its end, the metrics of a successful report of
\* yesterday are computed, and the four trends are absent.
DayBeforeFailureKeepsPage ==
    (/\ fuel.pc # "wait"
     /\ "db" \in Pipelines
     /\ fuel.fuel_data_y.kind # "none"
     /\ rep["db"].returned.kind # "report")
    => /\ fuel.pc = "done"
       /\ YesterdayReportOk
            => /\ fuel.rendered
               /\ fuel.data_y = parse_fuel_report(<<fuel.fuel_data_y.body>>)
               /\ fuel.fillings_vol = MetricGet(fuel.data_y, "fillings_vol")
               /\ fuel.loss_pct # <<>>
       /\ fuel.trend_str = <<>>
       /\ fuel.consumed_trend_str = <<>>
       /\ fuel.drains_trend_str = <<>>
       /\ fuel.loss_pct_trend_str = <<>>

\* pct is drains_vol / fillings_vol * 100
IsLossRatio(pct, drains_vol, fillings_vol) ==
    /\ pct.den > 0
    /\ pct.num * fillings_vol = drains_vol * 100 * pct.den

IsZero(pct) == pct.num = 0 /\ pct.den > 0

LaterStages == {"trips", "kpi", "fuel"}

\* C14 as stated: when the fetch of the tracker list or the fetch of the
\* tracker states failed, the script has stopped and no later stage has run.
FetchFailureStopsLoad ==
    (page.list_failed \/ page.states_failed)
    => (page.pc = "stopped" /\ page.ran \cap LaterStages = {})

\* C14: when the fetch of the tracker list failed the script has stopped
\* before the states fetch and before every later stage; when the fetch of
\* the tracker states failed the script has not stopped: states is empty,
\* every status counter stays 0 and the later stages run.
ListFailureStopsStatesFailureDegrades ==
    /\ page.list_failed
        => /\ page.pc = "stopped"
           /\ ~page.states_called
           /\ page.ran = {}
    /\ page.states_failed
        => /\ page.pc \notin {"stopped", "raised"}
           /\ page.states = EmptyDict
           /\ \A c \in CounterNames : page.counters[c] = 0
    /\ page.pc = "done" => page.ran = LaterStages

\* the states fetch failed for a fleet of two and the script reached its end
StatesFailureWitness ==
    /\ page.states_failed
    /\ Len(page.tracker_ids) = 2
    /\ page.pc = "done"
    /\ page.ran = LaterStages

(***************************************************************************)
(* Properties of the day partition (SpecKpi)                               *)
(***************************************************************************)
\* the first 10 characters of the trip's start_date; "" when it has none
DayOf(tr) ==
    IF "start_date" \in DOMAIN tr /\ tr["start_date"].t = "str"
      THEN Prefix10(tr["start_date"].s)
      ELSE ""

\* how many times tr occurs in the list
Occurrences(tr, trips) == Cardinality({j \in 1..Len(trips) : trips[j] = tr})

\* C15: every trip of the fetch result is in the yesterday bucket of its
\* own tracker id iff its start_date begins with yesterday's date, in the
\* day-before bucket iff it begins with the day-before date, and in no
\* bucket otherwise; no trip is in both buckets.
DayPartition ==
    kpi_pc = "done" =>
        /\ Len(yesterday_trips) = Len(two_days_trips)
        /\ Len(day_before_trips) = Len(two_days_trips)
        /\ \A i \in 1..Len(two_days_trips) :
            LET src == two_days_trips[i].trips
                y == yesterday_trips[i].trips
                db == day_before_trips[i].trips
            IN  /\ yesterday_trips[i].id = two_days_trips[i].id
                /\ day_before_trips[i].id = two_days_trips[i].id
                /\ Range(y) \cup Range(db) \subseteq Range(src)
                /\ Range(y) \cap Range(db) = {}
                /\ \A tr \in Range(src) :
                    /\ Occurrences(tr, y) =
                          IF DayOf(tr) = yesterday_str THEN Occurrences(tr, src) ELSE 0
                    /\ Occurrences(tr, db) =
                          IF DayOf(tr) = day_before_str THEN Occurrences(tr, src) ELSE 0

\* one tracker with a trip of each day, another with an older trip and a
\* trip without start_date, both dropped
DayPartitionWitness ==
    /\ kpi_pc = "done"
    /\ Len(two_days_trips) = 2
    /\ two_days_trips[1].trips = <<TripMorning, TripOverMidnight>>
    /\ two_days_trips[2].trips = <<TripOld, TripNoStart>>
    /\ yesterday_trips[1].trips = <<TripMorning>>
    /\ day_before_trips[1].trips = <<TripOverMidnight>>
    /\ yesterday_trips[2].trips = <<>>
    /\ day_before_trips[2].trips = <<>>

(***************************************************************************)
(* Properties of the trend (SpecTrend)                                     *)
(***************************************************************************)
\* C16: the trend is "up" when active_count is greater than
\* prev_active_count, "down" when smaller and "same" when equal, and the
\* delta shown reads as active_count - prev_active_count, with a plus sign
\* on an increase.
TrendClassification ==
    kpi_trend.pc = "done" =>
        LET a == kpi_trend.active_count
            p == kpi_trend.prev_active_count
        IN  /\ a > p => (kpi_trend.trend = TrendUp /\ kpi_trend.trend_text.sign = "+")
            /\ a < p => (kpi_trend.trend = TrendDown /\ kpi_trend.trend_text.sign = "-")
            /\ a = p => (kpi_trend.trend = TrendSame /\ kpi_trend.trend_text.sign = "")
            /\ TextValue(kpi_trend.trend_text) = a - p

\* 5 active yesterday and 3 the day before: an increase shown as +2
TrendWitness ==
    /\ kpi_trend.pc = "done"
    /\ kpi_trend.active_count = 5
    /\ kpi_trend.prev_active_count = 3
    /\ kpi_trend.trend = TrendUp
    /\ kpi_trend.trend_text = [sign |-> "+", digits |-> 2]

(***************************************************************************)
(* Properties of the compliance buckets (SpecCompliance)                   *)
(***************************************************************************)
\* the date the bucket of an entity is decided by: the license date, or the
\* liability date when non-empty and the comprehensive date otherwise
DecidingDate(entity, fn) ==
    IF fn = "process_driver_licenses"
      THEN BodyGet(entity, "driver_license_valid_till")
    ELSE IF BodyGet(entity, "liability_insurance_valid_till") \notin {JNone, JStr("")}
      THEN BodyGet(entity, "liability_insurance_valid_till")
    ELSE BodyGet(entity, "free_insurance_valid_till")

\* the bucket by the days left until the date
ExpectedBucket(date, today) ==
    IF date \in {JNone, JStr("")} \/ ParseDate(date.s) = ValueError THEN "empty"
    ELSE LET left == ParseDate(date.s) - today
         IN  CASE left < 0 -> "expired"
               [] left >= 0 /\ left < 30 -> "expiring"
               [] OTHER -> "ok"

\* the sum of the four counts
RECURSIVE SumStats(_, _)
SumStats(stats, names) ==
    IF names = {} THEN 0
    ELSE LET b == CHOOSE x \in names : TRUE
         IN  stats[b] + SumStats(stats, names \ {b})

\* C18: every entity is in exactly one of the four buckets, the one its
\* deciding date calls for (empty: missing or unparseable; expired: before
\* today; expiring: from today to today+29; ok: from today+30), and the
\* four counts sum to the number of entities.
ComplianceBuckets ==
    comp.pc = "returned" =>
        /\ SumStats(comp.stats, BucketNames) = Len(comp.entities)
        /\ \A b \in BucketNames : comp.stats[b] = Len(comp.details[b])
        /\ \A i \in 1..Len(comp.entities) :
            \A b \in BucketNames :
                Occurrences(i, comp.details[b]) =
                    IF b = ExpectedBucket(DecidingDate(comp.entities[i], comp.fn),
                                          comp.today)
                      THEN 1 ELSE 0

\* on 2025-06-01: a license valid till today is expiring, one valid till
\* 2025-07-01 (today+30) is ok
LicenseBoundaryWitness ==
    /\ comp.pc = "returned"
    /\ comp.fn = "process_driver_licenses"
    /\ comp.today = 31
    /\ comp.entities = <<[driver_license_valid_till |-> JStr("2025-06-01")],
                         [driver_license_valid_till |-> JStr("2025-07-01")]>>
    /\ comp.details["expiring"] = <<1>>
    /\ comp.details["ok"] = <<2>>

(***************************************************************************)
(* parse_fuel_report                                                       *)
(***************************************************************************)
\* the metric of the result and the field of the total row it is read from
MetricSource ==
    [fillings_count |-> "fillingsCount", fillings_vol |-> "fillingsVolume",
     drains_count |-> "drainsCount", drains_vol |-> "drainsVolume",
     consumed |-> "consumed"]

\* the report is a dict, successful, and its first data block is there
ReachesDataBlock(report) ==
    /\ report # <<>>
    /\ IsDict(report[1])
    /\ TruthyJ(BodyGet(report[1], "success"))
    /\ HasDataBlock(report[1])

DataBlockOf(report) == report[1]["report"]["sheets"][1]["sections"][1]["data"][1]

\* the whole nesting down to a total row that is a dict
WellNested(report) ==
    /\ ReachesDataBlock(report)
    /\ "total" \in DOMAIN DataBlockOf(report)
    /\ IsDict(DataBlockOf(report)["total"])

\* the raw value of a field when it is a number, else 0
RawOrZero(total, key) ==
    IF key \notin DOMAIN total THEN 0
    ELSE IF ~IsDict(total[key]) THEN 0
    ELSE IF "raw" \notin DOMAIN total[key] THEN 0
    ELSE IF total[key]["raw"].t = "num" THEN total[key]["raw"].n
    ELSE 0

AllZero == [m \in DOMAIN MetricSource |-> 0]

\* C21: for a successful report with the whole nesting, parse_fuel_report
\* returns all five metrics, each the raw value of its field when that is a
\* number and 0 when the field is missing, null or not a number; a bad
\* field leaves the other four as they are.
FieldsDefaultToZero ==
    (parse.pc # "call" /\ WellNested(parse.rep)) =>
        /\ parse.pc = "returned"
        /\ DOMAIN parse.data = DOMAIN MetricSource
        /\ \A m \in DOMAIN MetricSource :
            parse.data[m] = RawOrZero(DataBlockOf(parse.rep)["total"], MetricSource[m])

\* the arguments C22 speaks of: None, an unsuccessful report, a report with
\* a level of the nesting missing
IsBroken(report) ==
    \/ report = <<>>
    \/ /\ IsDict(report[1])
       /\ ~ReachesDataBlock(report)

LacksTotal(report) ==
    /\ ReachesDataBlock(report)
    /\ "total" \notin DOMAIN DataBlockOf(report)

KnownLastUpdate(states, tid) ==
    LET v == BodyGet(StateOfByText(states, tid), "last_update")
    IN  IF TruthyJ(v) /\ Strptime(v.s) # ValueError THEN <<Strptime(v.s)>> ELSE <<>>

\* C23: a tracker id is passed to the trip fetch iff its fetched state has
\* no last-update or a last-update not earlier than period_start minus one
\* day; one whose state has a parseable earlier last-update is left out.
ActiveFilter ==
    filt.pc = "fetch" =>
        \A tid \in Range(filt.tracker_ids) :
            (tid \in Range(filt.active_tracker_ids))
                <=> \/ KnownLastUpdate(filt.states, tid) = <<>>
                    \/ KnownLastUpdate(filt.states, tid)[1] >= ActiveSince

(***************************************************************************)
(* Totals of the KPI loop                                                  *)
(***************************************************************************)
\* both dates of the trip are there and parse
BothParse(tr) ==
    /\ TruthyJ(TripGet(tr, "start_date"))
    /\ TruthyJ(TripGet(tr, "end_date"))
    /\ Strptime(TripGet(tr, "start_date").s) # ValueError
    /\ Strptime(TripGet(tr, "end_date").s) # ValueError

Elapsed(tr) == Strptime(TripGet(tr, "end_date").s) - Strptime(TripGet(tr, "start_date").s)

\* the duration field when it is a number, else 0
DurationOrZero(tr) ==
    IF TripGet(tr, "duration").t = "num" THEN TripGet(tr, "duration").n ELSE 0

RECURSIVE SumOver(_, _)
SumOver(trips, f) ==
    IF trips = <<>> THEN 0 ELSE f[Head(trips)] + SumOver(Tail(trips), f)

YesterdayTrips == Flatten(yesterday_trips)

\* the duration fallback is taken and the field is a text
TextDurationUsed(tr) ==
    /\ ~BothParse(tr)
    /\ TripGet(tr, "duration").t = "str"
    /\ TripGet(tr, "duration").s # ""

\* the length is a text float() does not read
TextLength(tr) ==
    /\ TripGet(tr, "length").t = "str"
    /\ TripGet(tr, "length").s # ""
    /\ FloatOfText(TripGet(tr, "length").s) = ValueError

RECURSIVE FloatSumOver(_, _, _)
FloatSumOver(trips, f, acc) ==
    IF trips = <<>> THEN acc
    ELSE FloatSumOver(Tail(trips), f, FloatAdd(acc, ToFloat(f[Head(trips)])))

\* the length as a number: 0 when missing, null or not numeric
NumericLength(tr) ==
    LET v == TripGet(tr, "length")
    IN  CASE v.t \in {"num", "bool"} -> v.n
          [] v.t = "str" /\ FloatOfText(v.s) # ValueError -> FloatOfText(v.s)
          [] OTHER -> 0

\* C25: total distance is the sum of the lengths of yesterday's trips, a
\* missing, null or non-numeric length counting 0, and computing it never
\* fails whatever the lengths are.
DistanceNeverFails ==
    (kpi_pc # "loaded" /\ \A tr \in Range(YesterdayTrips) : ~TextDurationUsed(tr)) =>
        /\ kpi_pc = "done"
        /\ total_distance =
              FloatSumOver(YesterdayTrips,
                           [tr \in Range(YesterdayTrips) |-> NumericLength(tr)], 0)

(***************************************************************************)
(* Fuel totals                                                             *)
(***************************************************************************)
\* C26: every fuel total produced from a retrieved report (the counts and
\* volumes of fillings and drains, the consumed volume) is non-negative,
\* whatever numbers the report body carries.
FuelTotalsNonNegative ==
    fuel.pc = "done" =>
        /\ \A m \in DOMAIN fuel.data_y : fuel.data_y[m] >= 0
        /\ \A m \in DOMAIN fuel.data_db : fuel.data_db[m] >= 0
        /\ fuel.fillings_vol >= 0
        /\ fuel.drains_vol >= 0
        /\ fuel.consumed >= 0

(***************************************************************************)
(* What load_fuel_data returns                                             *)
(***************************************************************************)
\* C29: load_fuel_data never raises and, whatever the service answers
\* (rate-limit answers at generation, polling or retrieval included),
\* returns the retrieved report body or a dict with an "error" entry; it
\* never returns None, so `"error" in` its result is always defined.
LoadFuelDataNeverNone ==
    \A p \in Pipelines :
        rep[p].pc = "done" => rep[p].returned.kind \in {"report", "error"}

(***************************************************************************)
(* The two report calls side by side (SpecPair)                            *)
(***************************************************************************)
\* what load_fuel_data returns after the call that ended it, read from the
\* answers this pipeline received
OutcomesAfter(r) ==
    CASE r.call = ReturnedNone("generate") -> {ErrorDict(NoneTypeErrorText)}
      [] r.call = RaisedError("generate") -> {ErrorDict(e) : e \in RequestFaults}
      [] r.call = ReturnedBody("generate") -> {ErrorDict(NoReportIdText)}
      [] r.call = ReturnedNone("status") -> {ErrorDict(NoneTypeErrorText)}
      [] r.call = RaisedError("status") -> {ErrorDict(e) : e \in RequestFaults}
      [] r.call = ReturnedBody("status") -> {ErrorDict(TimeoutText)}
      [] r.call = ReturnedNone("retrieve") -> {NoneReturned}
      [] r.call = RaisedError("retrieve") -> {ErrorDict(e) : e \in RequestFaults}
      [] r.call = ReturnedBody("retrieve") -> {ReportDict(b) : b \in ReportBodies}
      [] OTHER -> {}

\* a step is a step of one pipeline and leaves the record of the other as
\* it is, its outcome included
StepIsLocal ==
    \A p \in Pipelines :
        rep'[p] # rep[p] => \A q \in Pipelines \ {p} : rep'[q] = rep[q]

\* C27: the two report pipelines are independent under every interleaving
\* of their steps: the outcome of each follows from the answers to its own
\* requests, and a failure or a retry in one leaves the other's outcome
\* unchanged.
PipelinesIndependent ==
    /\ [](\A p \in Pipelines :
            rep[p].pc = "done" => rep[p].returned \in OutcomesAfter(rep[p]))
    /\ [][StepIsLocal]_vars

\* yesterday's call returned a report although the call for the day
\* before was rate limited twice and then ended in a fault
OneFailsOtherReturnsWitness ==
    /\ Pipelines = {"y", "db"}
    /\ rep["y"].pc = "done"
    /\ rep["y"].returned.kind = "report"
    /\ rep["db"].pc = "done"
    /\ rep["db"].returned.kind = "error"
    /\ rep["db"].limited = 2
    /\ rep["db"].faults = 1

(***************************************************************************)
(* Termination and request caps (SpecBounded)                              *)
(***************************************************************************)
RECURSIVE RequestsSent(_)
RequestsSent(ids) ==
    IF ids = {} THEN 0
    ELSE LET t == CHOOSE x \in ids : TRUE
         IN  Len(call_log[t]) + RequestsSent(ids \ {t})

\* the requests the call in progress, or the last one, may have sent
RequestCap(r) ==
    CASE r.pc = "poll" -> StatusAttempts
      [] r.pc = "retrieve" -> RetrieveAttempts
      [] r.pc = "done" /\ r.call.op = "status" -> StatusAttempts
      [] r.pc = "done" /\ r.call.op = "retrieve" -> RetrieveAttempts
      [] OTHER -> 0

WithinCaps ==
    /\ RequestsSent(TrackerSet) <= attempts * Len(tracker_ids)
    /\ \A p \in Pipelines :
        /\ rep[p].posts <= max_retries
        /\ rep[p].polls <= PollCap
        /\ rep[p].retrieves <= 1
        /\ rep[p].requests <= RequestCap(rep[p])

Ended ==
    /\ main_pc \in {"idle", "returned", "raised"}
    /\ \A p \in Pipelines : rep[p].pc = "done"

\* C28: with every request answered, get_trips_parallel and the report
\* pipeline terminate; N trackers take at most 3*N trip requests, a report
\* run at most 5 generation requests, 30 status polls of at most 3 requests
\* each and 3 retrieval requests.
RunsEndWithinCaps == []WithinCaps /\ <>Ended

\* a report run that used all of its 30 polls and ended in the timeout
AllPollsUsedWitness ==
    /\ Pipelines = {"y"}
    /\ rep["y"].pc = "done"
    /\ rep["y"].polls = PollCap
    /\ rep["y"].returned = ErrorDict(TimeoutText)


====
